---- MODULE Spec2Model ----
(***************************************************************************)
(* ClinicFinance (src/app.py): the financial-consistency core.             *)
(*                                                                         *)
(* The tables of the entity store are sets of records keyed by id.  Money  *)
(* is modelled in whole taka (integers); dates are integers yyyymmdd, so   *)
(* that the order of dates is the order of the integers.  Free-text        *)
(* columns (description, note, names) and created_by/created_at are not    *)
(* modelled: no handler reads them to decide anything.  A NULL foreign id  *)
(* is 0 (the handlers test ids by truthiness, and ids start at 1).         *)
(*                                                                         *)
(* A handler is an operator from the database it finds and the form it is  *)
(* sent to the database it commits and the message it flashes.  An action  *)
(* is one request handled to completion.                                   *)
(*                                                                         *)
(* Spec serves every request of the core against both backends and keeps   *)
(* the database only.  SpecPay and SpecDelete serve the recording/updating *)
(* and the deleting requests and also keep the flashed message and the     *)
(* request.  SpecRecalc and SpecSalary run the ledger recalculator and the *)
(* salary resolver alone, over every small ledger and override table.      *)
(* SpecSupplier, SpecOverride and SpecReport serve the supplier bills, the *)
(* monthly salary overrides and the supplier report.  SpecFail and         *)
(* SpecRace split a bank request at its commits: in SpecFail a commit may  *)
(* raise, in SpecRace two requests run at once; there result holds the     *)
(* position of each request.  SpecCash serves the requests that move cash  *)
(* (day totals, lab collections, expenses, doctor bills, bank and staff    *)
(* payments) and compares the dashboard with the bank page.  SpecOwn is    *)
(* Spec with deposits as the only bank transaction, so that every debit of *)
(* the ledger was generated by a payment.  SpecDraft splits two debits at  *)
(* the read of the balance and at the commit.  SpecCap serves the staff    *)
(* payment and salary override requests for one staff member.              *)
(* SpecStatement runs the bank statement over every small ledger, with     *)
(* the cached balances up to date or never calculated.                     *)
(***************************************************************************)
EXTENDS Integers, Sequences, FiniteSets, TLC

\* Bounds of the model.
MaxId == 2          \* largest id a table hands out
MaxAmount == 2      \* largest amount a form submits
MaxPayments == 1    \* rows per payment table in Spec
MaxLog == 2         \* rows of the delete log
MaxRows == 1        \* rows of an edit-expense form
MaxPaid == 2        \* rows per payment table in SpecPay
MaxEntries == 3     \* rows of a ledger in SpecRecalc
MaxCalls == 2       \* calls of the recalculator in SpecRecalc
MaxStaff == 2       \* staff members in SpecSalary
MaxOverrides == 3   \* salary overrides in SpecSalary
MaxSuppliers == 2   \* suppliers in SpecSupplier
MaxBills == 3       \* largest bill id in SpecSupplier
MaxOverrideId == 3  \* largest override id in SpecOverride
MaxReportBills == 2     \* bills in SpecReport
MaxReportPayments == 1  \* payments in SpecReport
MaxRequests == 2        \* concurrent requests in SpecRace
MaxCashRows == 2        \* expenses, doctor bills and bank entries in SpecCash

Dates == {20240131, 20240201}
Amounts == 0..MaxAmount
Positive == 1..MaxAmount
Sources == {"cash", "bank"}
TxTypes == {"deposit", "withdraw"}
Ids == 1..MaxId

VARIABLES
    backend,                 \* "postgresql" (DATABASE_URL set) or "sqlite"
    expenses,                \* Expense rows
    balance_entries,         \* BalanceEntry rows
    staff_payments,          \* StaffPayment rows
    supplier_payments,       \* SupplierPayment rows
    staffs,                  \* Staff rows
    staff_monthly_salaries,  \* StaffMonthlySalary rows
    suppliers,               \* Supplier rows
    supplier_bills,          \* SupplierBill rows
    days,                    \* DaySummary rows
    lab_collections,         \* LabCollection rows
    doctor_bills,            \* DoctorBill rows
    expense_templates,       \* ExpenseTemplate rows
    users,                   \* User rows
    delete_logs,             \* DeleteLog rows <<entity_type, entity_id>>, in insertion order
    id_seq,                  \* postgresql: last value of each table's id sequence
    flash,                   \* message flashed by the last request (where recorded)
    result                   \* the last request or helper call (where recorded)

vars == <<backend, expenses, balance_entries, staff_payments, supplier_payments,
          staffs, staff_monthly_salaries, suppliers, supplier_bills,
          days, lab_collections, doctor_bills, expense_templates, users,
          delete_logs, id_seq, flash, result>>

\* the database a request finds
DB == [backend |-> backend, expenses |-> expenses,
       balance_entries |-> balance_entries, staff_payments |-> staff_payments,
       supplier_payments |-> supplier_payments, staffs |-> staffs,
       staff_monthly_salaries |-> staff_monthly_salaries, suppliers |-> suppliers,
       supplier_bills |-> supplier_bills, days |-> days,
       lab_collections |-> lab_collections, doctor_bills |-> doctor_bills,
       expense_templates |-> expense_templates, users |-> users,
       delete_logs |-> delete_logs, id_seq |-> id_seq]

\* db.session.commit() of the database a request leaves
Commit(db) ==
    /\ backend' = db.backend
    /\ expenses' = db.expenses
    /\ balance_entries' = db.balance_entries
    /\ staff_payments' = db.staff_payments
    /\ supplier_payments' = db.supplier_payments
    /\ staffs' = db.staffs
    /\ staff_monthly_salaries' = db.staff_monthly_salaries
    /\ suppliers' = db.suppliers
    /\ supplier_bills' = db.supplier_bills
    /\ days' = db.days
    /\ lab_collections' = db.lab_collections
    /\ doctor_bills' = db.doctor_bills
    /\ expense_templates' = db.expense_templates
    /\ users' = db.users
    /\ delete_logs' = db.delete_logs
    /\ id_seq' = db.id_seq

\* the database a run starts from
Start(db) ==
    /\ backend = db.backend
    /\ expenses = db.expenses
    /\ balance_entries = db.balance_entries
    /\ staff_payments = db.staff_payments
    /\ supplier_payments = db.supplier_payments
    /\ staffs = db.staffs
    /\ staff_monthly_salaries = db.staff_monthly_salaries
    /\ suppliers = db.suppliers
    /\ supplier_bills = db.supplier_bills
    /\ days = db.days
    /\ lab_collections = db.lab_collections
    /\ doctor_bills = db.doctor_bills
    /\ expense_templates = db.expense_templates
    /\ users = db.users
    /\ delete_logs = db.delete_logs
    /\ id_seq = db.id_seq

(***************************************************************************)
(* Generic helpers                                                         *)
(***************************************************************************)
\* db.func.sum over a column: P holds one <<id, value>> pair per row
RECURSIVE SumPairs(_)
SumPairs(P) ==
    IF P = {} THEN 0
    ELSE LET x == CHOOSE y \in P : TRUE IN x[2] + SumPairs(P \ {x})

SumCredit(E) == SumPairs({<<e.id, e.credit>> : e \in E})
SumDebit(E) == SumPairs({<<e.id, e.debit>> : e \in E})
SumAmount(R) == SumPairs({<<r.id, r.amount>> : r \in R})

Year(d) == d \div 10000
Month(d) == (d \div 100) % 100

IsLeap(y) == (y % 4 = 0 /\ y % 100 # 0) \/ y % 400 = 0
DaysInMonth(y, m) ==
    IF m = 2 THEN (IF IsLeap(y) THEN 29 ELSE 28)
    ELSE IF m \in {4, 6, 9, 11} THEN 30 ELSE 31

\* pay_date.replace(day=1)
month_start(d) == Year(d) * 10000 + Month(d) * 100 + 1
\* the first day of the next month minus one day
month_end(d) == Year(d) * 10000 + Month(d) * 100 + DaysInMonth(Year(d), Month(d))

(***************************************************************************)
(* Primary keys.  SQLAlchemy's Integer primary key is a SERIAL sequence on *)
(* PostgreSQL (a value is never handed out twice) and a rowid alias on     *)
(* SQLite (the new id is the largest id present plus one, so the id of a   *)
(* deleted last row is handed out again).                                  *)
(***************************************************************************)
MaxIdOf(rows) ==
    IF rows = {} THEN 0
    ELSE CHOOSE m \in {r.id : r \in rows} : \A r \in rows : r.id <= m

NewId(db, table) ==
    IF db.backend = "sqlite" THEN MaxIdOf(db[table]) + 1 ELSE db.id_seq[table] + 1

AdvanceSeq(db, inserted) ==
    IF db.backend = "sqlite" THEN db.id_seq
    ELSE [t \in DOMAIN db.id_seq |->
            IF t \in inserted THEN db.id_seq[t] + 1 ELSE db.id_seq[t]]

\* Model.query.get(id): the row, or nothing
Get(rows, id) == {r \in rows : r.id = id}

(***************************************************************************)
(* Bank Ledger Recalculator                                                *)
(***************************************************************************)
\* a recalculator that would order the rows by id alone
EntryBeforeById(a, b) == a.id < b.id

\* ORDER BY date, id
EntryBefore(a, b) == a.date < b.date \/ (a.date = b.date /\ a.id < b.id)

RECURSIVE OrderByDateId(_)
OrderByDateId(E) ==
    IF E = {} THEN <<>>
    ELSE LET first == CHOOSE x \in E : \A y \in E \ {x} : EntryBefore(x, y)
         IN <<first>> \o OrderByDateId(E \ {first})

\* a recalculator that would add to the cached balances instead of replacing them
RECURSIVE RunningFoldOntoCache(_, _)
RunningFoldOntoCache(entries, running) ==
    IF entries = <<>> THEN {}
    ELSE LET e == Head(entries)
             r == running + e.credit - e.debit
         IN {[e EXCEPT !.balance_after = @ + r]}
                \cup RunningFoldOntoCache(Tail(entries), r)

\* the loop of recalc_bank_balances: running += credit - debit; e.balance_after = running
RECURSIVE RunningFold(_, _)
RunningFold(entries, running) ==
    IF entries = <<>> THEN {}
    ELSE LET e == Head(entries)
             r == running + e.credit - e.debit
         IN {[e EXCEPT !.balance_after = r]} \cup RunningFold(Tail(entries), r)

\* a recalculator that would leave the cached balances alone
NoRecalc(E) == E

recalc_bank_balances(E) == RunningFold(OrderByDateId(E), 0)

\* sum(credit) - sum(debit) over all BalanceEntry rows
BankBalance(E) == SumCredit(E) - SumDebit(E)

(***************************************************************************)
(* Request outcomes                                                        *)
(***************************************************************************)
Response(db, msg) == [db |-> db, flash |-> msg]

\* get_or_404: the request is aborted with nothing changed and nothing flashed
NotFound(db) == Response(db, "404 Not Found")

\* if amount <= 0
\* a check that would let a zero amount through
NegativeOnly(amount) == amount < 0

NonPositive(amount) == amount <= 0

\* if amount > current_balance
\* a check that would never find the bank short
NeverInsufficient(amount, E) == FALSE

InsufficientFunds(amount, E) == amount > BankBalance(E)

log_delete(db, entity_type, entity_id) ==
    Append(db.delete_logs, <<entity_type, entity_id>>)

(***************************************************************************)
(* POST /bank : deposit or withdraw                                        *)
(***************************************************************************)
\* a handler that would report the transaction without storing it
bank_without_entry(db, tx_type, amount, tx_date) ==
    Response(db, "Bank transaction recorded.")

bank(db, tx_type, amount, tx_date) ==
    IF NonPositive(amount) THEN Response(db, "Amount must be positive.")
    ELSE IF tx_type = "withdraw" /\ InsufficientFunds(amount, db.balance_entries)
    THEN Response(db, "Cannot withdraw more than current bank balance.")
    ELSE IF tx_type \notin {"deposit", "withdraw"}
    THEN Response(db, "Invalid transaction type.")
    ELSE
        LET entry == [id |-> NewId(db, "balance_entries"),
                      date |-> tx_date,
                      credit |-> IF tx_type = "deposit" THEN amount ELSE 0,
                      debit |-> IF tx_type = "deposit" THEN 0 ELSE amount,
                      balance_after |-> 0]
        IN Response(
              [db EXCEPT
                 !.balance_entries = recalc_bank_balances(@ \cup {entry}),
                 !.id_seq = AdvanceSeq(db, {"balance_entries"})],
              "Bank transaction recorded.")

(***************************************************************************)
(* POST /bank/entry/<id>/delete                                            *)
(***************************************************************************)
delete_bank_entry(db, entry_id) ==
    IF Get(db.balance_entries, entry_id) = {} THEN NotFound(db)
    ELSE Response(
            [db EXCEPT
               !.delete_logs = log_delete(db, "bank_entry", entry_id),
               !.balance_entries =
                   recalc_bank_balances(@ \ Get(db.balance_entries, entry_id))],
            "Bank transaction deleted.")

(***************************************************************************)
(* Salary Resolver                                                         *)
(***************************************************************************)
\* a filter that would look at the requested year only
EffectiveInSameYear(r, year, month) == r.year = year /\ r.month <= month

\* the filter of the query: year < :year OR (year = :year AND month <= :month)
EffectiveOnOrBefore(r, year, month) ==
    r.year < year \/ (r.year = year /\ r.month <= month)

\* ORDER BY year DESC, month DESC
YearMonthAfter(a, b) == a.year > b.year \/ (a.year = b.year /\ a.month > b.month)

RECURSIVE OrderByYearMonthDesc(_)
OrderByYearMonthDesc(R) ==
    IF R = {} THEN <<>>
    ELSE LET first == CHOOSE x \in R : \A y \in R : ~YearMonthAfter(y, x)
         IN <<first>> \o OrderByYearMonthDesc(R \ {first})

\* returns <<salary, {salary_record}>>, the second component empty for None
get_staff_salary_for_month(overrides, staff, year, month) ==
    LET found == OrderByYearMonthDesc(
                    {r \in overrides :
                        r.staff_id = staff.id /\ EffectiveOnOrBefore(r, year, month)})
    IN IF found # <<>> THEN <<Head(found).salary, {Head(found)}>>
       ELSE <<staff.salary, {}>>

(***************************************************************************)
(* Aggregates read by the payment handlers                                 *)
(***************************************************************************)
\* staff.payments dated month_start..month_end of the payment's month
total_paid_this_month(db, staff, pay_date) ==
    SumAmount({p \in db.staff_payments :
                  /\ p.staff_id = staff.id
                  /\ p.date >= month_start(pay_date)
                  /\ p.date <= month_end(pay_date)})

\* supplier.payments, all dates
total_paid_so_far(db, supplier) ==
    SumAmount({p \in db.supplier_payments : p.supplier_id = supplier.id})

\* a check that would also reject once the obligation is already exceeded
OverpaymentWhenever(obligation, remaining, amount) ==
    obligation # 0 /\ amount > remaining

\* if obligation and remaining >= 0 and amount > remaining
Overpayment(obligation, remaining, amount) ==
    obligation # 0 /\ remaining >= 0 /\ amount > remaining

\* a handler that would book the expense of a salary payment and nothing else
pay_staff_expense_only(db, staff_id, source, amount, pay_date) ==
    Response([db EXCEPT !.expenses =
                 @ \cup {[id |-> NewId(db, "expenses"), date |-> pay_date,
                          category |-> "Salary", amount |-> amount]}],
             "Salary payment recorded.")

(***************************************************************************)
(* POST /staffs, form_type = pay_staff                                     *)
(***************************************************************************)
pay_staff(db, staff_id, source, amount, pay_date) ==
    IF Get(db.staffs, staff_id) = {} THEN NotFound(db)
    ELSE
    LET staff == CHOOSE s \in db.staffs : s.id = staff_id
        effective_salary ==
            get_staff_salary_for_month(db.staff_monthly_salaries, staff,
                                       Year(pay_date), Month(pay_date))[1]
        remaining == effective_salary - total_paid_this_month(db, staff, pay_date)
    IN
    IF NonPositive(amount) THEN Response(db, "Amount must be positive.")
    ELSE IF Overpayment(effective_salary, remaining, amount)
    THEN Response(db, "Cannot pay more than remaining salary for this month.")
    ELSE IF source = "bank" /\ InsufficientFunds(amount, db.balance_entries)
    THEN Response(db, "Not enough balance in bank to pay this amount.")
    ELSE IF source \notin {"cash", "bank"} THEN Response(db, "Invalid payment source.")
    ELSE
        LET bank_entry == [id |-> NewId(db, "balance_entries"),
                           date |-> pay_date, credit |-> 0, debit |-> amount,
                           balance_after |-> 0]
            expense == [id |-> NewId(db, "expenses"), date |-> pay_date,
                        category |-> "Salary", amount |-> amount]
            payment == [id |-> NewId(db, "staff_payments"),
                        staff_id |-> staff.id, date |-> pay_date,
                        amount |-> amount, source |-> source,
                        expense_id |-> expense.id,
                        bank_entry_id |-> IF source = "bank" THEN bank_entry.id ELSE 0]
        IN Response(
              [db EXCEPT
                 !.expenses = @ \cup {expense},
                 !.staff_payments = @ \cup {payment},
                 !.balance_entries =
                     IF source = "bank"
                     THEN recalc_bank_balances(@ \cup {bank_entry}) ELSE @,
                 !.id_seq = AdvanceSeq(db, {"expenses", "staff_payments"}
                     \cup (IF source = "bank" THEN {"balance_entries"} ELSE {}))],
              "Salary payment recorded.")

(***************************************************************************)
(* POST /suppliers, form_type = pay_supplier                               *)
(***************************************************************************)
pay_supplier(db, supplier_id, source, amount, pay_date) ==
    IF Get(db.suppliers, supplier_id) = {} THEN NotFound(db)
    ELSE
    LET supplier == CHOOSE s \in db.suppliers : s.id = supplier_id
        remaining == supplier.total_due - total_paid_so_far(db, supplier)
    IN
    IF NonPositive(amount) THEN Response(db, "Amount must be positive.")
    ELSE IF Overpayment(supplier.total_due, remaining, amount)
    THEN Response(db, "Cannot pay more than remaining amount.")
    ELSE IF source = "bank" /\ InsufficientFunds(amount, db.balance_entries)
    THEN Response(db, "Not enough balance in bank to pay this amount.")
    ELSE IF source \notin {"cash", "bank"} THEN Response(db, "Invalid payment source.")
    ELSE
        LET bank_entry == [id |-> NewId(db, "balance_entries"),
                           date |-> pay_date, credit |-> 0, debit |-> amount,
                           balance_after |-> 0]
            expense == [id |-> NewId(db, "expenses"), date |-> pay_date,
                        category |-> "Supplier", amount |-> amount]
            payment == [id |-> NewId(db, "supplier_payments"),
                        supplier_id |-> supplier.id, date |-> pay_date,
                        amount |-> amount, source |-> source,
                        expense_id |-> expense.id,
                        bank_entry_id |-> IF source = "bank" THEN bank_entry.id ELSE 0]
        IN Response(
              [db EXCEPT
                 !.expenses = @ \cup {expense},
                 !.supplier_payments = @ \cup {payment},
                 !.balance_entries =
                     IF source = "bank"
                     THEN recalc_bank_balances(@ \cup {bank_entry}) ELSE @,
                 !.id_seq = AdvanceSeq(db, {"expenses", "supplier_payments"}
                     \cup (IF source = "bank" THEN {"balance_entries"} ELSE {}))],
              "Supplier payment recorded.")

(***************************************************************************)
(* Row updates shared by the handlers                                      *)
(***************************************************************************)
SetAmount(rows, id, amount) ==
    {IF r.id = id THEN [r EXCEPT !.amount = amount] ELSE r : r \in rows}

\* an update that would leave the ledger's debit as it was
KeepDebit(rows, id, amount) == rows

SetDebit(rows, id, amount) ==
    {IF r.id = id THEN [r EXCEPT !.debit = amount] ELSE r : r \in rows}

\* a lookup that would find no bank entry for any payment
NoLinkedEntries(P, E) == {}

\* the rows BalanceEntry.query.get(p.bank_entry_id) finds for the payments P
LinkedEntries(P, E) ==
    {be \in E : \E p \in P : p.bank_entry_id # 0 /\ be.id = p.bank_entry_id}

\* the rows Expense.query.get(p.expense_id) finds for the payments P
LinkedExpenses(P, X) ==
    {e \in X : \E p \in P : p.expense_id # 0 /\ e.id = p.expense_id}

(***************************************************************************)
(* POST /staffs/payment/<id>/update and /suppliers/payment/<id>/update     *)
(***************************************************************************)
update_staff_payment(db, payment_id, new_amount) ==
    IF Get(db.staff_payments, payment_id) = {} THEN NotFound(db)
    ELSE IF NonPositive(new_amount) THEN Response(db, "Amount must be positive.")
    ELSE
    LET payment == CHOOSE p \in db.staff_payments : p.id = payment_id
        touched_bank == LinkedEntries({payment}, db.balance_entries) # {}
    IN Response(
          [db EXCEPT
             !.staff_payments = SetAmount(@, payment.id, new_amount),
             !.expenses = IF payment.expense_id # 0
                          THEN SetAmount(@, payment.expense_id, new_amount) ELSE @,
             !.balance_entries =
                 IF touched_bank
                 THEN recalc_bank_balances(
                         SetDebit(@, payment.bank_entry_id, new_amount))
                 ELSE @],
          "Salary payment updated.")

update_supplier_payment(db, payment_id, new_amount) ==
    IF Get(db.supplier_payments, payment_id) = {} THEN NotFound(db)
    ELSE IF NonPositive(new_amount) THEN Response(db, "Amount must be positive.")
    ELSE
    LET payment == CHOOSE p \in db.supplier_payments : p.id = payment_id
        touched_bank == LinkedEntries({payment}, db.balance_entries) # {}
    IN Response(
          [db EXCEPT
             !.supplier_payments = SetAmount(@, payment.id, new_amount),
             !.expenses = IF payment.expense_id # 0
                          THEN SetAmount(@, payment.expense_id, new_amount) ELSE @,
             !.balance_entries =
                 IF touched_bank
                 THEN recalc_bank_balances(
                         SetDebit(@, payment.bank_entry_id, new_amount))
                 ELSE @],
          "Supplier payment updated.")

(***************************************************************************)
(* POST /staffs/payment/<id>/delete and /suppliers/payment/<id>/delete     *)
(***************************************************************************)
delete_staff_payment(db, payment_id) ==
    IF Get(db.staff_payments, payment_id) = {} THEN NotFound(db)
    ELSE
    LET payment == CHOOSE p \in db.staff_payments : p.id = payment_id
        be == LinkedEntries({payment}, db.balance_entries)
        exp == LinkedExpenses({payment}, db.expenses)
        touched_bank == be # {}
    IN Response(
          [db EXCEPT
             !.delete_logs = log_delete(db, "staff_payment", payment.id),
             !.expenses = @ \ exp,
             !.staff_payments = @ \ {payment},
             !.balance_entries =
                 IF touched_bank THEN recalc_bank_balances(@ \ be) ELSE @],
          "Salary payment deleted.")

delete_supplier_payment(db, payment_id) ==
    IF Get(db.supplier_payments, payment_id) = {} THEN NotFound(db)
    ELSE
    LET payment == CHOOSE p \in db.supplier_payments : p.id = payment_id
        be == LinkedEntries({payment}, db.balance_entries)
        exp == LinkedExpenses({payment}, db.expenses)
        touched_bank == be # {}
    IN Response(
          [db EXCEPT
             !.delete_logs = log_delete(db, "supplier_payment", payment.id),
             !.expenses = @ \ exp,
             !.supplier_payments = @ \ {payment},
             !.balance_entries =
                 IF touched_bank THEN recalc_bank_balances(@ \ be) ELSE @],
          "Supplier payment deleted.")

(***************************************************************************)
(* POST /expense/<id>/delete                                               *)
(***************************************************************************)
delete_expense(db, expense_id) ==
    IF Get(db.expenses, expense_id) = {} THEN NotFound(db)
    ELSE
    LET exp == CHOOSE e \in db.expenses : e.id = expense_id
        linked_staff == {p \in db.staff_payments : p.expense_id = exp.id}
        linked_supplier == {sp \in db.supplier_payments : sp.expense_id = exp.id}
        be == LinkedEntries(linked_staff \cup linked_supplier, db.balance_entries)
        touched_bank == be # {}
    IN Response(
          [db EXCEPT
             !.delete_logs = log_delete(db, "expense", exp.id),
             !.staff_payments = @ \ linked_staff,
             !.supplier_payments = @ \ linked_supplier,
             !.expenses = @ \ {exp},
             !.balance_entries =
                 IF touched_bank THEN recalc_bank_balances(@ \ be) ELSE @],
          "Expense deleted.")

(***************************************************************************)
(* POST /suppliers/<id>/delete                                             *)
(***************************************************************************)
delete_supplier(db, supplier_id) ==
    IF Get(db.suppliers, supplier_id) = {} THEN NotFound(db)
    ELSE
    LET supplier == CHOOSE s \in db.suppliers : s.id = supplier_id
        payments == {p \in db.supplier_payments : p.supplier_id = supplier.id}
        be == LinkedEntries(payments, db.balance_entries)
        exp == LinkedExpenses(payments, db.expenses)
        touched_bank == be # {}
    IN Response(
          [db EXCEPT
             !.delete_logs = log_delete(db, "supplier", supplier.id),
             !.supplier_bills = {b \in @ : b.supplier_id # supplier.id},
             !.expenses = @ \ exp,
             !.supplier_payments = @ \ payments,
             !.suppliers = @ \ {supplier},
             !.balance_entries =
                 IF touched_bank THEN recalc_bank_balances(@ \ be) ELSE @],
          "Supplier and all related bills/payments deleted.")

(***************************************************************************)
(* POST /superadmin/edit-expense, form_type = save_expenses                *)
(*                                                                         *)
(* The form is a list of rows, one per expense of the page (distinct ids), *)
(* each with a delete flag and an amount.  The handler walks the rows in   *)
(* order over the session's pending state, commits, and recalculates.      *)
(***************************************************************************)
\* Query.filter_by(expense_id=...).first(): the first row of a table scan
FirstById(rows) == {r \in rows : \A o \in rows : r.id <= o.id}

\* a row with amount > 0 and amount != expense.amount
edit_expense_amount(db, expense, amount) ==
    LET linked_staff_payment ==
            FirstById({p \in db.staff_payments : p.expense_id = expense.id})
        linked_supplier_payment ==
            FirstById({p \in db.supplier_payments : p.expense_id = expense.id})
        bank_entries ==
            LinkedEntries(linked_staff_payment \cup linked_supplier_payment,
                          db.balance_entries)
    IN [db EXCEPT
          !.expenses = SetAmount(@, expense.id, amount),
          !.staff_payments =
              {IF p \in linked_staff_payment THEN [p EXCEPT !.amount = amount] ELSE p
                  : p \in @},
          !.supplier_payments =
              {IF p \in linked_supplier_payment THEN [p EXCEPT !.amount = amount] ELSE p
                  : p \in @},
          !.balance_entries =
              {IF be \in bank_entries THEN [be EXCEPT !.debit = amount] ELSE be
                  : be \in @}]

\* the loop over the rows; count = <<updated_count, deleted_count>>
RECURSIVE edit_expense_rows(_, _, _)
edit_expense_rows(rows, db, count) ==
    IF rows = <<>> THEN <<db, count>>
    ELSE
    LET row == Head(rows)
        found == Get(db.expenses, row.expense_id)
    IN IF found = {} THEN edit_expense_rows(Tail(rows), db, count)
       ELSE
       LET expense == CHOOSE e \in found : TRUE
       IN IF row.delete
          THEN edit_expense_rows(Tail(rows),
                  [db EXCEPT !.delete_logs = log_delete(db, "expense", expense.id),
                             !.expenses = @ \ {expense}],
                  <<count[1], count[2] + 1>>)
          ELSE IF row.amount > 0 /\ row.amount # expense.amount
          THEN edit_expense_rows(Tail(rows),
                  edit_expense_amount(db, expense, row.amount),
                  <<count[1] + 1, count[2]>>)
          ELSE edit_expense_rows(Tail(rows), db, count)

edit_expense(db, rows) ==
    LET done == edit_expense_rows(rows, db, <<0, 0>>)
    IN Response(
          [done[1] EXCEPT !.balance_entries = recalc_bank_balances(@)],
          IF done[2][1] > 0 /\ done[2][2] > 0
          THEN "Deleted expense(s). Updated expense(s)."
          ELSE IF done[2][2] > 0 THEN "Deleted expense(s)."
          ELSE IF done[2][1] > 0 THEN "Updated expense(s)."
          ELSE "No changes detected.")

\* one row of the form: expense_id[], amount[], and whether it is in delete[]
EditRow == [expense_id : Ids, amount : Amounts, delete : BOOLEAN]

RECURSIVE FormsOfLength(_)
FormsOfLength(n) ==
    IF n = 0 THEN {<<>>}
    ELSE {Append(f, row) : f \in FormsOfLength(n - 1),
                           row \in EditRow}

DistinctIds(form) ==
    \A i, j \in DOMAIN form : i # j => form[i].expense_id # form[j].expense_id

EditForms ==
    UNION {{f \in FormsOfLength(n) : DistinctIds(f)} : n \in 1..MaxRows}

(***************************************************************************)
(* The database after db.create_all(), with one staff member whose salary  *)
(* is overridden from February 2024, and one supplier with one bill.       *)
(***************************************************************************)
Tables == {"expenses", "balance_entries", "staff_payments", "supplier_payments",
           "suppliers", "supplier_bills", "staff_monthly_salaries",
           "days", "lab_collections", "doctor_bills"}

\* the tables that already hold the row with id 1
Seeded == {"suppliers", "supplier_bills", "staff_monthly_salaries"}

Backends == {"postgresql", "sqlite"}

EmptyDB(b) ==
    [backend |-> b,
     expenses |-> {}, balance_entries |-> {},
     staff_payments |-> {}, supplier_payments |-> {},
     staffs |-> {[id |-> 1, salary |-> 1, active |-> TRUE]},
     staff_monthly_salaries |->
         {[id |-> 1, staff_id |-> 1, year |-> 2024, month |-> 2, salary |-> 2]},
     suppliers |-> {[id |-> 1, total_due |-> 2]},
     supplier_bills |->
         {[id |-> 1, supplier_id |-> 1, date |-> 20240131, amount |-> 2]},
     days |-> {}, lab_collections |-> {}, doctor_bills |-> {},
     expense_templates |-> {},
     users |-> {[id |-> 1, role |-> "superadmin"], [id |-> 2, role |-> "employee"]},
     delete_logs |-> <<>>,
     id_seq |-> [t \in Tables |-> IF t \in Seeded THEN 1 ELSE 0]]

Init ==
    /\ \E b \in Backends : Start(EmptyDB(b))
    /\ flash = ""
    /\ result = <<>>

\* the part of the state space explored
Bounded ==
    /\ \A t \in Tables : id_seq[t] <= MaxId
    /\ \A r \in expenses \cup balance_entries \cup staff_payments
                \cup supplier_payments : r.id <= MaxId
    /\ Cardinality(staff_payments) <= MaxPayments
    /\ Cardinality(supplier_payments) <= MaxPayments
    /\ Len(delete_logs) <= MaxLog

\* a request whose response is not looked at
Request(r) == Commit(r.db) /\ UNCHANGED <<flash, result>>

(***************************************************************************)
(* Requests served one at a time                                           *)
(***************************************************************************)
Bank ==
    \E t \in TxTypes, a \in Amounts, d \in Dates :
        /\ Request(bank(DB, t, a, d))
        /\ Bounded'

DeleteBankEntry ==
    \E i \in Ids :
        /\ Request(delete_bank_entry(DB, i))
        /\ Bounded'

PayStaff ==
    \E s \in Sources, a \in Amounts, d \in Dates :
        /\ Request(pay_staff(DB, 1, s, a, d))
        /\ Bounded'

PaySupplier ==
    \E s \in Sources, a \in Amounts, d \in Dates :
        /\ Request(pay_supplier(DB, 1, s, a, d))
        /\ Bounded'

UpdateStaffPayment ==
    \E i \in Ids, a \in Amounts :
        /\ Request(update_staff_payment(DB, i, a))
        /\ Bounded'

UpdateSupplierPayment ==
    \E i \in Ids, a \in Amounts :
        /\ Request(update_supplier_payment(DB, i, a))
        /\ Bounded'

DeleteStaffPayment ==
    \E i \in Ids :
        /\ Request(delete_staff_payment(DB, i))
        /\ Bounded'

DeleteSupplierPayment ==
    \E i \in Ids :
        /\ Request(delete_supplier_payment(DB, i))
        /\ Bounded'

DeleteExpense ==
    \E i \in Ids :
        /\ Request(delete_expense(DB, i))
        /\ Bounded'

DeleteSupplier ==
    /\ Request(delete_supplier(DB, 1))
    /\ Bounded'

EditExpense ==
    \E rows \in EditForms :
        /\ Request(edit_expense(DB, rows))
        /\ Bounded'

Next ==
    \/ Bank
    \/ DeleteBankEntry
    \/ PayStaff
    \/ PaySupplier
    \/ UpdateStaffPayment
    \/ UpdateSupplierPayment
    \/ DeleteStaffPayment
    \/ DeleteSupplierPayment
    \/ DeleteExpense
    \/ DeleteSupplier
    \/ EditExpense

Spec == Init /\ [][Next]_vars

(***************************************************************************)
(* The ledger recalculator on its own: any ledger, any stale balances      *)
(***************************************************************************)
LedgerDates == {20240101, 20240102, 20240103}
LedgerAmounts == {200, 300, 1000}
StaleBalances == {0, 999}

EntryShape ==
    [date : LedgerDates, amount : LedgerAmounts,
     side : {"credit", "debit"}, balance_after : StaleBalances]

\* rows 1..n in insertion order, each a deposit or a debit
Ledger(f) ==
    {[id |-> i, date |-> f[i].date,
      credit |-> IF f[i].side = "credit" THEN f[i].amount ELSE 0,
      debit |-> IF f[i].side = "debit" THEN f[i].amount ELSE 0,
      balance_after |-> f[i].balance_after] : i \in DOMAIN f}

InitRecalc ==
    /\ \E n \in 0..MaxEntries : \E f \in [1..n -> EntryShape] :
          Start([EmptyDB("sqlite") EXCEPT !.balance_entries = Ledger(f)])
    /\ flash = ""
    /\ result = [calls |-> 0, before |-> {}, first |-> {}]

\* a call of recalc_bank_balances(); result remembers the ledger before the
\* first call and the ledger the first call left
Recalc ==
    /\ result.calls < MaxCalls
    /\ Commit([DB EXCEPT !.balance_entries = recalc_bank_balances(@)])
    /\ result' = [calls |-> result.calls + 1,
                  before |-> IF result.calls = 0 THEN balance_entries
                             ELSE result.before,
                  first |-> IF result.calls = 0
                            THEN recalc_bank_balances(balance_entries)
                            ELSE result.first]
    /\ UNCHANGED flash

NextRecalc == Recalc

SpecRecalc == InitRecalc /\ [][NextRecalc]_vars

(***************************************************************************)
(* The salary resolver on its own: any overrides of two staff members      *)
(***************************************************************************)
OverrideYears == {2023, 2024}
OverrideMonths == {3, 6, 12}
OverrideSalaries == {5000, 6000}
QueryMonths == {2, 4, 7, 12}

OverrideKeys == (1..MaxStaff) \X OverrideYears \X OverrideMonths

\* at most one row per (staff_id, year, month), as set_monthly_salary keeps it
OverrideTable(f) ==
    {[id |-> (k[1] - 1) * 100 + (k[2] - 2023) * 12 + k[3],
      staff_id |-> k[1], year |-> k[2], month |-> k[3],
      salary |-> f[k]] : k \in DOMAIN f}

SalaryStaff == {[id |-> i, salary |-> 4000, active |-> TRUE] : i \in 1..MaxStaff}

InitSalary ==
    /\ \E K \in {S \in SUBSET OverrideKeys : Cardinality(S) <= MaxOverrides} :
       \E f \in [K -> OverrideSalaries] :
          Start([EmptyDB("sqlite") EXCEPT !.staffs = SalaryStaff,
                                          !.staff_monthly_salaries = OverrideTable(f)])
    /\ flash = ""
    /\ result = <<>>

\* a call of get_staff_salary_for_month(staff, year, month)
EffectiveSalary ==
    \E staff \in staffs, year \in OverrideYears, month \in QueryMonths :
        /\ result' = [staff |-> staff, year |-> year, month |-> month,
                      returned |-> get_staff_salary_for_month(
                                      staff_monthly_salaries, staff, year, month)]
        /\ Commit(DB)
        /\ UNCHANGED flash

NextSalary == EffectiveSalary

SpecSalary == InitSalary /\ [][NextSalary]_vars

(***************************************************************************)
(* Recording and updating payments, with the response kept: a staff member *)
(* paid 5000 a month until an override takes effect in February 2024, and  *)
(* a supplier with or without a bill.                                      *)
(***************************************************************************)
PayAmounts == {-200, 0, 200, 300, 4800}
FebruarySalaries == {0, 200}
BillAmounts == {0, 5000}
\* the day of the supplier's bill, of its payments and of the bank's transactions
BillDates == {20240131}

PayDB(february, due) ==
    [EmptyDB("sqlite") EXCEPT
        !.staffs = {[id |-> 1, salary |-> 5000, active |-> TRUE]},
        !.staff_monthly_salaries =
            {[id |-> 1, staff_id |-> 1, year |-> 2024, month |-> 2,
              salary |-> february]},
        !.suppliers = {[id |-> 1, total_due |-> due]},
        !.supplier_bills =
            IF due = 0 THEN {}
            ELSE {[id |-> 1, supplier_id |-> 1, date |-> d, amount |-> due] :
                     d \in BillDates}]

InitPay ==
    /\ \E february \in FebruarySalaries, due \in BillAmounts :
          Start(PayDB(february, due))
    /\ flash = ""
    /\ result = <<>>

BoundedPay ==
    /\ \A r \in expenses \cup balance_entries \cup staff_payments
                \cup supplier_payments : r.id <= MaxId
    /\ Cardinality(staff_payments) <= MaxPaid
    /\ Cardinality(supplier_payments) <= MaxPaid

\* a request whose flashed message is kept, with the request itself
Served(r, request) ==
    Commit(r.db) /\ flash' = r.flash /\ result' = request

PayBank ==
    \E t \in TxTypes, a \in PayAmounts, d \in BillDates :
        /\ Served(bank(DB, t, a, d), [op |-> "bank", amount |-> a])
        /\ BoundedPay'

PayPayStaff ==
    \E s \in Sources, a \in PayAmounts, d \in Dates :
        /\ Served(pay_staff(DB, 1, s, a, d), [op |-> "pay_staff", amount |-> a])
        /\ BoundedPay'

PayPaySupplier ==
    \E s \in Sources, a \in PayAmounts, d \in BillDates :
        /\ Served(pay_supplier(DB, 1, s, a, d),
                  [op |-> "pay_supplier", amount |-> a])
        /\ BoundedPay'

PayUpdateStaffPayment ==
    \E i \in Ids, a \in PayAmounts :
        /\ Served(update_staff_payment(DB, i, a),
                  [op |-> "update_staff_payment", amount |-> a])
        /\ BoundedPay'

PayUpdateSupplierPayment ==
    \E i \in Ids, a \in PayAmounts :
        /\ Served(update_supplier_payment(DB, i, a),
                  [op |-> "update_supplier_payment", amount |-> a])
        /\ BoundedPay'

NextPay ==
    \/ PayBank
    \/ PayPayStaff
    \/ PayPaySupplier
    \/ PayUpdateStaffPayment
    \/ PayUpdateSupplierPayment

SpecPay == InitPay /\ [][NextPay]_vars

(***************************************************************************)
(* POST /admin/empty-db                                                    *)
(*                                                                         *)
(* The handler logs "all_data" and then bulk-deletes the tables one after  *)
(* the other, the DeleteLog among them, inside one transaction.  It does   *)
(* not delete StaffMonthlySalary: on PostgreSQL the foreign key of an      *)
(* override row makes DELETE FROM staffs fail, and the except branch rolls *)
(* everything back; SQLite does not enforce foreign keys.                  *)
(***************************************************************************)
\* DELETE FROM staffs violates staff_monthly_salaries.staff_id
ForeignKeyViolation(db) ==
    /\ db.backend = "postgresql"
    /\ \E r \in db.staff_monthly_salaries : \E s \in db.staffs : r.staff_id = s.id

empty_database(db) ==
    IF ForeignKeyViolation(db) THEN Response(db, "Error while deleting data")
    ELSE Response([db EXCEPT
                      !.days = {}, !.expenses = {}, !.doctor_bills = {},
                      !.balance_entries = {},
                      !.staff_payments = {}, !.staffs = {},
                      !.supplier_bills = {}, !.supplier_payments = {},
                      !.suppliers = {}, !.expense_templates = {},
                      !.delete_logs = <<>>, !.lab_collections = {}],
                  "All financial records have been permanently deleted.")

(***************************************************************************)
(* Deleting payments, expenses and bank entries, with the response kept    *)
(* together with the request and the row it named.                         *)
(***************************************************************************)
InitDelete ==
    /\ \E b \in Backends : Start(EmptyDB(b))
    /\ flash = ""
    /\ result = <<>>

DelBank ==
    \E a \in Positive, d \in BillDates :
        /\ Served(bank(DB, "deposit", a, d), [op |-> "bank", row |-> {}])
        /\ Bounded'

DelPayStaff ==
    \E s \in Sources, a \in Positive, d \in BillDates :
        /\ Served(pay_staff(DB, 1, s, a, d), [op |-> "pay_staff", row |-> {}])
        /\ Bounded'

DelPaySupplier ==
    \E s \in Sources, a \in Positive, d \in BillDates :
        /\ Served(pay_supplier(DB, 1, s, a, d), [op |-> "pay_supplier", row |-> {}])
        /\ Bounded'

DelDeleteBankEntry ==
    \E i \in Ids :
        /\ Served(delete_bank_entry(DB, i),
                  [op |-> "delete_bank_entry", row |-> Get(balance_entries, i)])
        /\ Bounded'

DelDeleteStaffPayment ==
    \E i \in Ids :
        /\ Served(delete_staff_payment(DB, i),
                  [op |-> "delete_staff_payment", row |-> Get(staff_payments, i)])
        /\ Bounded'

DelDeleteSupplierPayment ==
    \E i \in Ids :
        /\ Served(delete_supplier_payment(DB, i),
                  [op |-> "delete_supplier_payment",
                   row |-> Get(supplier_payments, i)])
        /\ Bounded'

DelDeleteExpense ==
    \E i \in Ids :
        /\ Served(delete_expense(DB, i),
                  [op |-> "delete_expense", row |-> Get(expenses, i)])
        /\ Bounded'

DelEditExpense ==
    \E rows \in EditForms :
        /\ Served(edit_expense(DB, rows),
                  [op |-> "edit_expense", row |-> Get(expenses, rows[1].expense_id)])
        /\ Bounded'

DelEmptyDatabase ==
    /\ Served(empty_database(DB), [op |-> "empty_database", row |-> {}])
    /\ Bounded'

NextDelete ==
    \/ DelBank
    \/ DelPayStaff
    \/ DelPaySupplier
    \/ DelDeleteBankEntry
    \/ DelDeleteStaffPayment
    \/ DelDeleteSupplierPayment
    \/ DelDeleteExpense
    \/ DelEditExpense
    \/ DelEmptyDatabase

SpecDelete == InitDelete /\ [][NextDelete]_vars

(***************************************************************************)
(* Suppliers and their bills                                               *)
(***************************************************************************)
\* a supplier page that would never refresh the cached total
KeepTotalDue(db, supplier_id) == db.suppliers

\* Supplier.recalc_total_due: total_due = sum of the supplier's bills, or 0
recalc_total_due(db, supplier_id) ==
    {IF s.id = supplier_id
     THEN [s EXCEPT !.total_due =
              SumAmount({b \in db.supplier_bills : b.supplier_id = supplier_id})]
     ELSE s : s \in db.suppliers}

\* POST /suppliers, form_type = add_supplier
add_supplier(db) ==
    Response([db EXCEPT
                 !.suppliers = @ \cup {[id |-> NewId(db, "suppliers"),
                                        total_due |-> 0]},
                 !.id_seq = AdvanceSeq(db, {"suppliers"})],
             "Supplier added. Now add bills from the supplier's detail page.")

\* POST /suppliers/<id>, form_type = add_bill
add_bill(db, supplier_id, amount, bill_date) ==
    IF Get(db.suppliers, supplier_id) = {} THEN NotFound(db)
    ELSE IF amount <= 0 THEN Response(db, "Bill amount must be positive.")
    ELSE
        LET bill == [id |-> NewId(db, "supplier_bills"),
                     supplier_id |-> supplier_id, date |-> bill_date,
                     amount |-> amount]
            added == [db EXCEPT !.supplier_bills = @ \cup {bill},
                                !.id_seq = AdvanceSeq(db, {"supplier_bills"})]
        IN Response([added EXCEPT !.suppliers = recalc_total_due(added, supplier_id)],
                    "Bill added successfully.")

\* POST /suppliers/<id>/bill/<bill_id>/delete
delete_supplier_bill(db, supplier_id, bill_id) ==
    IF Get(db.supplier_bills, bill_id) = {} \/ Get(db.suppliers, supplier_id) = {}
    THEN NotFound(db)
    ELSE
    LET bill == CHOOSE b \in db.supplier_bills : b.id = bill_id
    IN IF bill.supplier_id # supplier_id THEN Response(db, "Invalid bill.")
       ELSE
        LET deleted == [db EXCEPT
                           !.delete_logs = log_delete(db, "supplier_bill", bill.id),
                           !.supplier_bills = @ \ {bill}]
        IN Response([deleted EXCEPT
                        !.suppliers = recalc_total_due(deleted, supplier_id)],
                    "Bill deleted.")

\* the database before the first supplier is added
NoSuppliers(b) ==
    [EmptyDB(b) EXCEPT
        !.suppliers = {}, !.supplier_bills = {},
        !.id_seq = [t \in Tables |-> 0]]

InitSupplier ==
    /\ \E b \in Backends : Start(NoSuppliers(b))
    /\ flash = ""
    /\ result = <<>>

BoundedSupplier ==
    /\ \A t \in Tables : id_seq[t] <= MaxBills
    /\ \A r \in suppliers : r.id <= MaxSuppliers
    /\ \A r \in supplier_bills : r.id <= MaxBills
    /\ Len(delete_logs) <= MaxLog

SupAddSupplier ==
    /\ Served(add_supplier(DB), [op |-> "add_supplier"])
    /\ BoundedSupplier'

SupAddBill ==
    \E i \in 1..MaxSuppliers, a \in Amounts, d \in Dates :
        /\ Served(add_bill(DB, i, a, d), [op |-> "add_bill"])
        /\ BoundedSupplier'

SupDeleteSupplierBill ==
    \E i \in 1..MaxSuppliers, bill_id \in 1..MaxBills :
        /\ Served(delete_supplier_bill(DB, i, bill_id),
                  [op |-> "delete_supplier_bill"])
        /\ BoundedSupplier'

SupDeleteSupplier ==
    \E i \in 1..MaxSuppliers :
        /\ Served(delete_supplier(DB, i), [op |-> "delete_supplier"])
        /\ BoundedSupplier'

NextSupplier ==
    \/ SupAddSupplier
    \/ SupAddBill
    \/ SupDeleteSupplierBill
    \/ SupDeleteSupplier

SpecSupplier == InitSupplier /\ [][NextSupplier]_vars

(***************************************************************************)
(* POST /staffs/<id>/set-monthly-salary                                    *)
(***************************************************************************)
\* a lookup that would never find the month's override
NoExisting(overrides, staff_id, year, month) == {}

\* StaffMonthlySalary.query.filter_by(staff_id, year, month).first()
Existing(overrides, staff_id, year, month) ==
    FirstById({r \in overrides :
                  r.staff_id = staff_id /\ r.year = year /\ r.month = month})

\* a reset that would drop every override of the staff member
DeleteAllOfStaff(overrides, existing) ==
    {r \in overrides : \A x \in existing : r.staff_id # x.staff_id}

\* db.session.delete(existing)
DeleteOverride(overrides, existing) == overrides \ existing

set_monthly_salary(db, staff_id, year, month, salary, action) ==
    IF Get(db.staffs, staff_id) = {} THEN NotFound(db)
    ELSE IF month < 1 \/ month > 12 THEN Response(db, "Invalid month.")
    ELSE
    LET existing == Existing(db.staff_monthly_salaries, staff_id, year, month)
    IN IF action = "reset"
       THEN IF existing # {}
            THEN Response([db EXCEPT !.staff_monthly_salaries =
                                         DeleteOverride(@, existing)],
                          "Salary reset to base salary for this month.")
            ELSE Response(db, "No monthly salary override to reset.")
       ELSE IF salary < 0 THEN Response(db, "Salary cannot be negative.")
       ELSE IF existing # {}
       THEN Response([db EXCEPT !.staff_monthly_salaries =
                         {IF r \in existing THEN [r EXCEPT !.salary = salary] ELSE r
                             : r \in @}],
                     "Salary set from this month onwards.")
       ELSE Response([db EXCEPT
                         !.staff_monthly_salaries =
                             @ \cup {[id |-> NewId(db, "staff_monthly_salaries"),
                                      staff_id |-> staff_id, year |-> year,
                                      month |-> month, salary |-> salary]},
                         !.id_seq = AdvanceSeq(db, {"staff_monthly_salaries"})],
                     "Salary set from this month onwards.")

\* the staff list before any override is set
NoOverrides(b) ==
    [EmptyDB(b) EXCEPT
        !.staffs = SalaryStaff,
        !.staff_monthly_salaries = {},
        !.id_seq = [t \in Tables |-> 0]]

FormMonths == {3, 6, 13}
FormSalaries == {-1, 5000, 6000}
FormActions == {"set", "reset"}

InitOverride ==
    /\ \E b \in Backends : Start(NoOverrides(b))
    /\ flash = ""
    /\ result = <<>>

BoundedOverride ==
    /\ id_seq["staff_monthly_salaries"] <= MaxOverrideId
    /\ \A r \in staff_monthly_salaries : r.id <= MaxOverrideId

SetMonthlySalary ==
    \E i \in 1..MaxStaff, y \in OverrideYears, m \in FormMonths,
       salary \in FormSalaries :
        /\ Served(set_monthly_salary(DB, i, y, m, salary, "set"),
                  [op |-> "set",
                   row |-> Existing(staff_monthly_salaries, i, y, m)])
        /\ BoundedOverride'

ResetMonthlySalary ==
    \E i \in 1..MaxStaff, y \in OverrideYears, m \in FormMonths :
        /\ Served(set_monthly_salary(DB, i, y, m, 0, "reset"),
                  [op |-> "reset",
                   row |-> Existing(staff_monthly_salaries, i, y, m)])
        /\ BoundedOverride'

NextOverride ==
    \/ SetMonthlySalary
    \/ ResetMonthlySalary

SpecOverride == InitOverride /\ [][NextOverride]_vars

(***************************************************************************)
(* POST /suppliers/<id>/report : the statement of a supplier over a range  *)
(***************************************************************************)
\* an opening balance that would count the first day of the range as well
OnOrBeforeStart(d, start_date) == d <= start_date

\* SupplierBill.date < start_date, SupplierPayment.date < start_date
BeforeStart(d, start_date) == d < start_date

\* date >= start_date AND date <= end_date
InRange(d, start_date, end_date) == d >= start_date /\ d <= end_date

\* the values handed to the template, or the flashed rejection
supplier_report(db, supplier_id, start_date, end_date) ==
    IF Get(db.suppliers, supplier_id) = {}
    THEN [flash |-> "404 Not Found", report |-> <<>>]
    ELSE IF end_date < start_date
    THEN [flash |-> "End date cannot be earlier than start date.", report |-> <<>>]
    ELSE
    LET bills == {b \in db.supplier_bills : b.supplier_id = supplier_id}
        payments == {q \in db.supplier_payments : q.supplier_id = supplier_id}
        total_bills_period ==
            SumAmount({b \in bills : InRange(b.date, start_date, end_date)})
        total_paid_period ==
            SumAmount({q \in payments : InRange(q.date, start_date, end_date)})
        bills_before == SumAmount({b \in bills : BeforeStart(b.date, start_date)})
        paid_before == SumAmount({q \in payments : BeforeStart(q.date, start_date)})
        opening_balance == bills_before - paid_before
    IN [flash |-> "",
        report |-> [supplier_id |-> supplier_id,
                    start_date |-> start_date, end_date |-> end_date,
                    total_bills_period |-> total_bills_period,
                    total_paid_period |-> total_paid_period,
                    opening_balance |-> opening_balance,
                    closing_balance |->
                        opening_balance + total_bills_period - total_paid_period,
                    balance_all |-> SumAmount(bills) - SumAmount(payments)]]

ReportDates == {20240115, 20240201, 20240215}
ReportAmounts == {2000, 4000, 10000}
ReportShape == [supplier_id : 1..MaxSuppliers, date : ReportDates,
                amount : ReportAmounts]

\* the books after some bills were added and some cash payments recorded
ReportDB(bills, paid) ==
    LET supplier_bills_ == {[id |-> k, supplier_id |-> bills[k].supplier_id,
                             date |-> bills[k].date, amount |-> bills[k].amount]
                               : k \in DOMAIN bills}
    IN [EmptyDB("sqlite") EXCEPT
          !.supplier_bills = supplier_bills_,
          !.suppliers =
              {[id |-> i,
                total_due |-> SumAmount({b \in supplier_bills_ : b.supplier_id = i})]
                  : i \in 1..MaxSuppliers},
          !.supplier_payments =
              {[id |-> k, supplier_id |-> paid[k].supplier_id,
                date |-> paid[k].date, amount |-> paid[k].amount,
                source |-> "cash", expense_id |-> k, bank_entry_id |-> 0]
                  : k \in DOMAIN paid},
          !.expenses =
              {[id |-> k, date |-> paid[k].date, category |-> "Supplier",
                amount |-> paid[k].amount] : k \in DOMAIN paid}]

InitReport ==
    /\ \E n \in 0..MaxReportBills, k \in 0..MaxReportPayments :
       \E bills \in [1..n -> ReportShape], paid \in [1..k -> ReportShape] :
          Start(ReportDB(bills, paid))
    /\ flash = ""
    /\ result = <<>>

SupplierReport ==
    \E i \in 1..MaxSuppliers, start_date \in ReportDates, end_date \in ReportDates :
        LET r == supplier_report(DB, i, start_date, end_date)
        IN /\ flash' = r.flash
           /\ result' = r.report
           /\ Commit(DB)

NextReport == SupplierReport

SpecReport == InitReport /\ [][NextReport]_vars

(***************************************************************************)
(* A bank-affecting request commit by commit.  The handler commits its     *)
(* rows with its own db.session.commit() and only then calls               *)
(* recalc_bank_balances(), which reads every row, assigns balance_after    *)
(* and commits a second time.  No handler catches an exception of either   *)
(* commit: the request ends with a 500 and the session is discarded, which *)
(* rolls back what has not been committed yet.                             *)
(***************************************************************************)
\* what the handler's own commit stores: recalc_bank_balances() has not run,
\* so a row keeps the balance_after it had and a new row holds the default 0
FirstCommit(db, r) ==
    [r.db EXCEPT !.balance_entries =
        {[e EXCEPT !.balance_after =
              IF Get(db.balance_entries, e.id) = {} THEN 0
              ELSE (CHOOSE x \in db.balance_entries : x.id = e.id).balance_after]
            : e \in @}]

\* the handler goes on to recalc_bank_balances(): it added, changed or
\* deleted a BalanceEntry
Recalculates(db, r) ==
    {[e EXCEPT !.balance_after = 0] : e \in r.db.balance_entries}
        # {[e EXCEPT !.balance_after = 0] : e \in db.balance_entries}

\* positions of a request
InFlight == {"committed", "read"}
AtRest == {"idle", "done", "failed"}

InitFail ==
    /\ \E b \in Backends : Start(EmptyDB(b))
    /\ flash = ""
    /\ result = [pc |-> "idle", before |-> EmptyDB("sqlite")]

\* the handler up to and including its own commit, which may raise
Begin(r) ==
    /\ result.pc \in AtRest
    /\ \E raised \in BOOLEAN :
          IF r.db = DB
          THEN /\ ~raised
               /\ Commit(DB)
               /\ result' = [pc |-> "done", before |-> DB]
          ELSE IF raised
          THEN /\ Commit(DB)
               /\ result' = [pc |-> "failed", before |-> DB]
          ELSE IF Recalculates(DB, r)
          THEN /\ Commit(FirstCommit(DB, r))
               /\ result' = [pc |-> "committed", before |-> DB]
          ELSE /\ Commit(r.db)
               /\ result' = [pc |-> "done", before |-> DB]
    /\ UNCHANGED flash

FailBank ==
    \E t \in TxTypes, a \in Amounts, d \in Dates :
        /\ Begin(bank(DB, t, a, d))
        /\ Bounded'

FailDeleteBankEntry ==
    \E i \in Ids :
        /\ Begin(delete_bank_entry(DB, i))
        /\ Bounded'

FailPayStaff ==
    \E s \in Sources, a \in Amounts, d \in Dates :
        /\ Begin(pay_staff(DB, 1, s, a, d))
        /\ Bounded'

\* recalc_bank_balances() of the request, whose commit may raise
FailRecalc ==
    /\ result.pc = "committed"
    /\ \E raised \in BOOLEAN :
          IF raised
          THEN /\ Commit(DB)
               /\ result' = [result EXCEPT !.pc = "failed"]
          ELSE /\ Commit([DB EXCEPT !.balance_entries = recalc_bank_balances(@)])
               /\ result' = [result EXCEPT !.pc = "done"]
    /\ UNCHANGED flash

NextFail == FailBank \/ FailDeleteBankEntry \/ FailPayStaff \/ FailRecalc

SpecFail == InitFail /\ [][NextFail]_vars

(***************************************************************************)
(* Two POST /bank requests served by different workers.  Each commits its  *)
(* row, then recalc_bank_balances() loads every row, and its commit writes *)
(* the balance_after of the loaded rows it changed.  Nothing is locked     *)
(* between the load and the commit.                                        *)
(***************************************************************************)
Requests == 1..MaxRequests

\* a flush that would write nothing back
FlushNothing(stored, loaded, computed) == stored

\* the UPDATEs of the commit: one per loaded row whose balance_after was
\* assigned a value other than the loaded one
Flush(stored, loaded, computed) ==
    {IF \E c \in computed, l \in loaded :
            c.id = e.id /\ l.id = e.id /\ c.balance_after # l.balance_after
     THEN [e EXCEPT !.balance_after =
              (CHOOSE c \in computed : c.id = e.id).balance_after]
     ELSE e : e \in stored}

InitRace ==
    /\ \E b \in Backends : Start(EmptyDB(b))
    /\ flash = ""
    /\ result = [r \in Requests |->
                    [pc |-> "idle", entries |-> {}, overlapped |-> FALSE]]

\* lines 1182-1236: validate, add the row, commit
RaceBankCommit ==
    \E r \in Requests, t \in TxTypes, a \in Amounts, d \in Dates :
        LET response == bank(DB, t, a, d)
            others == \E x \in Requests : result[x].pc \in InFlight
        IN /\ result[r].pc = "idle"
           /\ Commit(FirstCommit(DB, response))
           /\ result' =
                 [x \in Requests |->
                     IF x = r
                     THEN [pc |-> IF response.db = DB THEN "done" ELSE "committed",
                           entries |-> {},
                           overlapped |-> response.db # DB /\ others]
                     ELSE [result[x] EXCEPT
                             !.overlapped =
                                 @ \/ (response.db # DB /\ result[x].pc \in InFlight)]]
           /\ UNCHANGED flash

\* line 410: entries = BalanceEntry.query.order_by(...).all()
RaceRecalcRead ==
    \E r \in Requests :
        /\ result[r].pc = "committed"
        /\ Commit(DB)
        /\ result' = [result EXCEPT ![r].pc = "read",
                                    ![r].entries = balance_entries]
        /\ UNCHANGED flash

\* lines 411-415: assign the running totals to the loaded rows and commit
RaceRecalcCommit ==
    \E r \in Requests :
        /\ result[r].pc = "read"
        /\ Commit([DB EXCEPT !.balance_entries =
                      Flush(@, result[r].entries,
                            recalc_bank_balances(result[r].entries))])
        /\ result' = [result EXCEPT ![r].pc = "done", ![r].entries = {}]
        /\ UNCHANGED flash

NextRace == RaceBankCommit \/ RaceRecalcRead \/ RaceRecalcCommit

SpecRace == InitRace /\ [][NextRace]_vars

(***************************************************************************)
(* Collections, plain expenses and doctor bills, and the cash in hand the  *)
(* dashboard and the bank page show                                        *)
(***************************************************************************)
SumTotalCollection(rows) == SumPairs({<<r.id, r.total_collection>> : r \in rows})

\* DaySummary.recalc_total
recalc_total(day) ==
    [day EXCEPT !.total_collection = day.collect_soft_new + day.collect_soft_old]

\* the first row of the date, as filter_by(date=d).first() finds it
OnDate(rows, d) == {r \in rows : r.date = d}

\* POST /day/add
add_day(db, role, d, collect_soft_new, collect_soft_old) ==
    LET existing == OnDate(db.days, d)
    IN IF existing # {} /\ role # "admin"
       THEN Response(db, "Only admin can modify an existing day summary for this date.")
       ELSE
       LET old == IF existing # {} THEN CHOOSE r \in existing : TRUE
                  ELSE [id |-> NewId(db, "days"), date |-> d,
                        collect_soft_new |-> 0, collect_soft_old |-> 0,
                        total_collection |-> 0]
           day == recalc_total([old EXCEPT !.collect_soft_new = collect_soft_new,
                                           !.collect_soft_old = collect_soft_old])
       IN Response([db EXCEPT
                      !.days = (@ \ existing) \cup {day},
                      !.id_seq = IF existing = {} THEN AdvanceSeq(db, {"days"}) ELSE @],
                   "Day summary saved.")

\* POST /lab-collection
lab_collection(db, d, amount) ==
    IF NonPositive(amount) THEN Response(db, "Amount must be positive.")
    ELSE
    LET day == OnDate(db.days, d)
        lab_row == OnDate(db.lab_collections, d)
        new_day == [id |-> NewId(db, "days"), date |-> d,
                    collect_soft_new |-> 0, collect_soft_old |-> 0,
                    total_collection |-> 0]
        row == IF lab_row # {}
               THEN [(CHOOSE r \in lab_row : TRUE) EXCEPT !.amount = amount]
               ELSE [id |-> NewId(db, "lab_collections"), date |-> d,
                     amount |-> amount]
    IN Response([db EXCEPT
                   !.days = IF day = {} THEN @ \cup {new_day} ELSE @,
                   !.lab_collections = (@ \ lab_row) \cup {row},
                   !.id_seq = AdvanceSeq(db,
                       (IF day = {} THEN {"days"} ELSE {})
                       \cup (IF lab_row = {} THEN {"lab_collections"} ELSE {}))],
                "Lab collection saved for this date.")

\* POST /lab-collection/<id>/delete
delete_lab_collection(db, lab_id) ==
    IF Get(db.lab_collections, lab_id) = {} THEN NotFound(db)
    ELSE Response([db EXCEPT !.lab_collections = @ \ Get(@, lab_id)],
                  "Lab collection entry deleted.")

\* POST /expense/add without a template
add_expense(db, d, amount) ==
    Response([db EXCEPT
                !.expenses = @ \cup {[id |-> NewId(db, "expenses"), date |-> d,
                                      category |-> "General", amount |-> amount]},
                !.id_seq = AdvanceSeq(db, {"expenses"})],
             "Expense added.")

\* POST /doctor-bill/add
add_doctor_bill(db, d, amount) ==
    Response([db EXCEPT
                !.doctor_bills = @ \cup {[id |-> NewId(db, "doctor_bills"),
                                          date |-> d, amount |-> amount]},
                !.id_seq = AdvanceSeq(db, {"doctor_bills"})],
             "Doctor bill added.")

\* POST /day/<id>/delete
delete_day(db, day_id) ==
    IF Get(db.days, day_id) = {} THEN NotFound(db)
    ELSE Response([db EXCEPT !.delete_logs = log_delete(db, "day", day_id),
                             !.days = @ \ Get(@, day_id)],
                  "Day summary deleted.")

\* a dashboard that would leave the lab collections out
dashboard_without_lab(db) ==
    [bank_balance |-> SumCredit(db.balance_entries) - SumDebit(db.balance_entries),
     cash_in_hand |-> SumTotalCollection(db.days) - SumAmount(db.expenses)
                      - SumAmount(db.doctor_bills)
                      - (SumCredit(db.balance_entries) - SumDebit(db.balance_entries))]

\* GET / : the cards of the dashboard
dashboard(db) ==
    LET total_doctor_bills_all == SumAmount(db.doctor_bills)
        total_collection_all_normal == SumTotalCollection(db.days)
        total_lab_all == SumAmount(db.lab_collections)
        total_collection_all == total_collection_all_normal + total_lab_all
        total_expenses_all == SumAmount(db.expenses)
        total_wealth ==
            total_collection_all - total_expenses_all - total_doctor_bills_all
        bank_credits == SumCredit(db.balance_entries)
        bank_debits == SumDebit(db.balance_entries)
        bank_balance == bank_credits - bank_debits
    IN [bank_balance |-> bank_balance, cash_in_hand |-> total_wealth - bank_balance]

\* GET /bank : the figures above the ledger
bank_page(db) ==
    LET bank_credits == SumCredit(db.balance_entries)
        bank_debits == SumDebit(db.balance_entries)
        bank_balance == bank_credits - bank_debits
        total_collection_all_normal == SumTotalCollection(db.days)
        total_lab_all == SumAmount(db.lab_collections)
        total_collection_all == total_collection_all_normal + total_lab_all
        total_expenses_all == SumAmount(db.expenses)
        total_doctor_bills_all == SumAmount(db.doctor_bills)
        total_wealth ==
            total_collection_all - total_expenses_all - total_doctor_bills_all
    IN [bank_balance |-> bank_balance, cash_in_hand |-> total_wealth - bank_balance]

(***************************************************************************)
(* The requests that move money, with the message of the last one kept     *)
(***************************************************************************)
Roles == {"admin", "employee"}
CollectAmounts == {0, MaxAmount}

InitCash ==
    /\ \E b \in Backends : Start(EmptyDB(b))
    /\ flash = ""
    /\ result = <<>>

BoundedCash ==
    /\ Bounded
    /\ \A r \in days \cup lab_collections \cup doctor_bills : r.id <= MaxId
    /\ Cardinality(expenses) <= MaxCashRows
    /\ Cardinality(doctor_bills) < MaxCashRows
    /\ Cardinality(balance_entries) <= MaxCashRows
    /\ Len(delete_logs) < MaxLog

\* a request of which the outcome is kept
Moved(r, op) ==
    /\ Commit(r.db)
    /\ flash' = r.flash
    /\ UNCHANGED result

CashAddDay ==
    \E role \in Roles, d \in BillDates, n \in CollectAmounts, o \in CollectAmounts :
        /\ Moved(add_day(DB, role, d, n, o), "add_day")
        /\ BoundedCash'

CashLabCollection ==
    \E d \in BillDates, a \in Amounts :
        /\ Moved(lab_collection(DB, d, a), "lab_collection")
        /\ BoundedCash'

CashDeleteLabCollection ==
    \E i \in Ids :
        /\ Moved(delete_lab_collection(DB, i), "delete_lab_collection")
        /\ BoundedCash'

CashAddExpense ==
    \E d \in BillDates, a \in Positive :
        /\ Moved(add_expense(DB, d, a), "add_expense")
        /\ BoundedCash'

CashAddDoctorBill ==
    \E d \in BillDates, a \in Positive :
        /\ Moved(add_doctor_bill(DB, d, a), "add_doctor_bill")
        /\ BoundedCash'

CashDeleteDay ==
    \E i \in Ids :
        /\ Moved(delete_day(DB, i), "delete_day")
        /\ BoundedCash'

CashBank ==
    \E t \in TxTypes, a \in Amounts, d \in BillDates :
        /\ Moved(bank(DB, t, a, d), "bank")
        /\ BoundedCash'

CashPayStaff ==
    \E s \in Sources, a \in Amounts, d \in BillDates :
        /\ Moved(pay_staff(DB, 1, s, a, d), "pay_staff")
        /\ BoundedCash'

NextCash ==
    \/ CashAddDay \/ CashLabCollection \/ CashDeleteLabCollection
    \/ CashAddExpense \/ CashAddDoctorBill \/ CashDeleteDay
    \/ CashBank \/ CashPayStaff

SpecCash == InitCash /\ [][NextCash]_vars

(***************************************************************************)
(* The requests of Spec with deposits as the only bank transactions, so    *)
(* that every debit of the ledger was written by a payment.                *)
(***************************************************************************)
OwnDeposit ==
    \E a \in Amounts, d \in Dates :
        /\ Request(bank(DB, "deposit", a, d))
        /\ Bounded'

OwnPayStaff ==
    \E s \in Sources, a \in Amounts, d \in Dates :
        /\ Request(pay_staff(DB, 1, s, a, d))
        /\ Bounded'

OwnPaySupplier ==
    \E s \in Sources, a \in Amounts, d \in Dates :
        /\ Request(pay_supplier(DB, 1, s, a, d))
        /\ Bounded'

OwnUpdateStaffPayment ==
    \E i \in Ids, a \in Amounts :
        /\ Request(update_staff_payment(DB, i, a))
        /\ Bounded'

OwnUpdateSupplierPayment ==
    \E i \in Ids, a \in Amounts :
        /\ Request(update_supplier_payment(DB, i, a))
        /\ Bounded'

OwnDeleteStaffPayment ==
    \E i \in Ids :
        /\ Request(delete_staff_payment(DB, i))
        /\ Bounded'

OwnDeleteSupplierPayment ==
    \E i \in Ids :
        /\ Request(delete_supplier_payment(DB, i))
        /\ Bounded'

OwnDeleteExpense ==
    \E i \in Ids :
        /\ Request(delete_expense(DB, i))
        /\ Bounded'

OwnDeleteSupplier ==
    \E i \in 1..MaxSuppliers :
        /\ Request(delete_supplier(DB, i))
        /\ Bounded'

OwnEditExpense ==
    \E rows \in EditForms :
        /\ Request(edit_expense(DB, rows))
        /\ Bounded'

OwnDeleteBankEntry ==
    \E i \in Ids :
        /\ Request(delete_bank_entry(DB, i))
        /\ Bounded'

NextOwn ==
    \/ OwnDeposit
    \/ OwnPayStaff
    \/ OwnPaySupplier
    \/ OwnUpdateStaffPayment
    \/ OwnUpdateSupplierPayment
    \/ OwnDeleteStaffPayment
    \/ OwnDeleteSupplierPayment
    \/ OwnDeleteExpense
    \/ OwnDeleteSupplier
    \/ OwnEditExpense
    \/ OwnDeleteBankEntry

SpecOwn == Init /\ [][NextOwn]_vars

(***************************************************************************)
(* Two POST /bank withdrawals served by different workers.  A request sums *)
(* the ledger (lines 1205-1211), compares its amount with that sum, adds   *)
(* its row and commits (1213-1236), then recalculates.  Nothing is locked  *)
(* between the sums and the commit.                                        *)
(***************************************************************************)
\* the ledger after one deposit
DepositedDB(b, amount) ==
    bank(EmptyDB(b), "deposit", amount, 20240131).db

InitDraft ==
    /\ \E b \in Backends, a \in Positive : Start(DepositedDB(b, a))
    /\ flash = ""
    /\ result = [r \in Requests |->
                    [pc |-> "idle", amount |-> 0, current_balance |-> 0,
                     accepted |-> FALSE, entries |-> {}]]

\* lines 1182-1211: the form is parsed and the balance is read
DraftRead ==
    \E r \in Requests, a \in Positive :
        /\ result[r].pc = "idle"
        /\ Commit(DB)
        /\ result' = [result EXCEPT
                         ![r].pc = "checked", ![r].amount = a,
                         ![r].current_balance = BankBalance(balance_entries)]
        /\ UNCHANGED flash

\* lines 1213-1236, tx_type = "withdraw": refuse, or add the row and commit
DraftCommit ==
    \E r \in Requests, d \in Dates :
        LET amount == result[r].amount
            entry == [id |-> NewId(DB, "balance_entries"), date |-> d,
                      credit |-> 0, debit |-> amount, balance_after |-> 0]
        IN /\ result[r].pc = "checked"
           /\ IF amount > result[r].current_balance
              THEN /\ Commit(DB)
                   /\ result' = [result EXCEPT ![r].pc = "done"]
              ELSE /\ Commit([DB EXCEPT
                                !.balance_entries = @ \cup {entry},
                                !.id_seq = AdvanceSeq(DB, {"balance_entries"})])
                   /\ result' = [result EXCEPT ![r].pc = "committed",
                                               ![r].accepted = TRUE]
           /\ UNCHANGED flash

\* line 410
DraftRecalcRead ==
    \E r \in Requests :
        /\ result[r].pc = "committed"
        /\ Commit(DB)
        /\ result' = [result EXCEPT ![r].pc = "read",
                                    ![r].entries = balance_entries]
        /\ UNCHANGED flash

\* lines 411-415
DraftRecalcCommit ==
    \E r \in Requests :
        /\ result[r].pc = "read"
        /\ Commit([DB EXCEPT !.balance_entries =
                      Flush(@, result[r].entries,
                            recalc_bank_balances(result[r].entries))])
        /\ result' = [result EXCEPT ![r].pc = "done", ![r].entries = {}]
        /\ UNCHANGED flash

NextDraft == DraftRead \/ DraftCommit \/ DraftRecalcRead \/ DraftRecalcCommit

SpecDraft == InitDraft /\ [][NextDraft]_vars

(***************************************************************************)
(* Salary payments against the salary of the month: recording, updating,   *)
(* expense edits, and the setting and resetting of overrides                *)
(***************************************************************************)
BoundedCap ==
    /\ Bounded
    /\ id_seq["staff_monthly_salaries"] <= MaxOverrideId
    /\ \A r \in staff_monthly_salaries : r.id <= MaxOverrideId

CapPayStaff ==
    \E s \in Sources, a \in Amounts, d \in Dates :
        /\ Request(pay_staff(DB, 1, s, a, d))
        /\ BoundedCap'

CapUpdateStaffPayment ==
    \E i \in Ids, a \in Amounts :
        /\ Request(update_staff_payment(DB, i, a))
        /\ BoundedCap'

CapEditExpense ==
    \E rows \in EditForms :
        /\ Request(edit_expense(DB, rows))
        /\ BoundedCap'

CapSetMonthlySalary ==
    \E d \in Dates, salary \in Amounts :
        /\ Request(set_monthly_salary(DB, 1, Year(d), Month(d), salary, "set"))
        /\ BoundedCap'

CapResetMonthlySalary ==
    \E d \in Dates :
        /\ Request(set_monthly_salary(DB, 1, Year(d), Month(d), 0, "reset"))
        /\ BoundedCap'

NextCap ==
    \/ CapPayStaff \/ CapUpdateStaffPayment \/ CapEditExpense
    \/ CapSetMonthlySalary \/ CapResetMonthlySalary

SpecCap == Init /\ [][NextCap]_vars

(***************************************************************************)
(* POST /bank/statement : the ledger over a range                          *)
(***************************************************************************)
\* an opening balance that would include the first day of the range
EntriesThroughStart(E, start_date) == {e \in E : e.date <= start_date}

\* BalanceEntry.date < start_date
EntriesBeforeStart(E, start_date) == {e \in E : e.date < start_date}

\* BalanceEntry.date >= start_date, BalanceEntry.date <= end_date
EntriesInRange(E, start_date, end_date) ==
    {e \in E : e.date >= start_date /\ e.date <= end_date}

bank_statement(db, start_date, end_date) ==
    IF end_date < start_date
    THEN [flash |-> "End date cannot be earlier than start date.",
          statement |-> <<>>]
    ELSE
    LET before == EntriesBeforeStart(db.balance_entries, start_date)
        opening_credits == SumCredit(before)
        opening_debits == SumDebit(before)
        opening_balance == opening_credits - opening_debits
        entries == EntriesInRange(db.balance_entries, start_date, end_date)
        period_credits == SumCredit(entries)
        period_debits == SumDebit(entries)
    IN [flash |-> "",
        statement |-> [start_date |-> start_date, end_date |-> end_date,
                       opening_balance |-> opening_balance,
                       closing_balance |->
                           opening_balance + period_credits - period_debits,
                       period_credits |-> period_credits,
                       period_debits |-> period_debits]]

StatementShape ==
    [date : LedgerDates, amount : LedgerAmounts, side : {"credit", "debit"},
     balance_after : {0}]

\* a ledger whose balances were recalculated, or one whose recalculations
\* never got to commit and whose rows still hold the column default
InitStatement ==
    /\ \E n \in 0..MaxEntries, cached \in BOOLEAN :
       \E f \in [1..n -> StatementShape] :
          Start([EmptyDB("sqlite") EXCEPT
                    !.balance_entries =
                        IF cached THEN recalc_bank_balances(Ledger(f))
                        ELSE Ledger(f)])
    /\ flash = ""
    /\ result = <<>>

BankStatement ==
    \E start_date \in LedgerDates, end_date \in LedgerDates :
        LET r == bank_statement(DB, start_date, end_date)
        IN /\ Commit(DB)
           /\ flash' = r.flash
           /\ result' = r.statement

NextStatement == BankStatement

SpecStatement == InitStatement /\ [][NextStatement]_vars

(***************************************************************************)
(* Properties                                                              *)
(***************************************************************************)
\* x is at or before e in (date ascending, id ascending) order
AtOrBefore(x, e) == x.date < e.date \/ (x.date = e.date /\ x.id <= e.id)

\* sum of credit - debit over the rows of E at or before e
RunningTotal(E, e) ==
    LET upto == {x \in E : AtOrBefore(x, e)}
    IN SumCredit(upto) - SumDebit(upto)

Uncached(E) ==
    {[id |-> e.id, date |-> e.date, credit |-> e.credit, debit |-> e.debit] : e \in E}

\* C1: in every reachable state, every payment whose expense_id refers to an
\* existing Expense has Expense.amount = payment.amount, and every bank-sourced
\* payment whose bank_entry_id refers to an existing BalanceEntry has
\* BalanceEntry.debit = payment.amount.
C1_LinkedAmountsAgree ==
    \A p \in staff_payments \cup supplier_payments :
        /\ \A e \in expenses : e.id = p.expense_id => e.amount = p.amount
        /\ \A be \in balance_entries :
              (p.source = "bank" /\ be.id = p.bank_entry_id) => be.debit = p.amount

\* C2: with requests served one at a time, after every completed operation
\* every BalanceEntry's balance_after equals the sum of credit - debit over
\* the entries at or before it in (date, id) order.
C2_BalanceAfterIsRunningTotal ==
    \A e \in balance_entries : e.balance_after = RunningTotal(balance_entries, e)

\* the ledger holds a row dated earlier than a row inserted before it, and a
\* debit, after a deletion
C2_Witness ==
    /\ delete_logs # <<>>
    /\ \E a, b \in balance_entries :
          /\ a.id < b.id /\ b.date < a.date
          /\ b.debit > 0
          /\ a.balance_after # a.credit - a.debit

\* C3: from any ledger and any stale balances, recalc_bank_balances sets each
\* balance_after to the running total in (date, id) order and changes no
\* row's date, credit or debit; credit 1000, debit 300, credit 200 on three
\* successive days get 1000, 700, 900 whatever their insertion order.
C3_RecalcSetsRunningTotals ==
    result.calls >= 1 =>
        /\ Uncached(balance_entries) = Uncached(result.before)
        /\ \A e \in balance_entries :
              e.balance_after = RunningTotal(balance_entries, e)
        /\ \A a, b, c \in balance_entries :
              ( /\ Cardinality(balance_entries) = 3
                /\ a.date = 20240101 /\ a.credit = 1000
                /\ b.date = 20240102 /\ b.debit = 300
                /\ c.date = 20240103 /\ c.credit = 200 )
              => ( /\ a.balance_after = 1000
                   /\ b.balance_after = 700
                   /\ c.balance_after = 900 )

\* the three rows of the example, inserted out of date order with stale caches
C3_Witness ==
    /\ result.calls = 1
    /\ \A e \in result.before : e.balance_after = 999
    /\ \E a, b, c \in balance_entries :
          /\ a.id = 3 /\ a.date = 20240101 /\ a.credit = 1000 /\ a.balance_after = 1000
          /\ b.id = 1 /\ b.date = 20240102 /\ b.debit = 300 /\ b.balance_after = 700
          /\ c.id = 2 /\ c.date = 20240103 /\ c.credit = 200 /\ c.balance_after = 900

\* C4: recalc_bank_balances is idempotent: a second call with no mutation in
\* between leaves every balance_after as the first call left it.
C4_RecalcIdempotent ==
    result.calls = 2 => balance_entries = result.first

\* a second call on a ledger of several rows whose first call changed caches
C4_Witness ==
    /\ result.calls = 2
    /\ Cardinality(balance_entries) >= 2
    /\ result.before # result.first
    /\ \E e \in balance_entries : e.debit > 0

\* (y1, m1) <= (y2, m2) lexicographically
YearMonthLE(y1, m1, y2, m2) == y1 < y2 \/ (y1 = y2 /\ m1 <= m2)

\* the override rows of the staff member effective for the requested month
OwnOverrides ==
    {r \in staff_monthly_salaries :
        /\ r.staff_id = result.staff.id
        /\ YearMonthLE(r.year, r.month, result.year, result.month)}

\* C5: get_staff_salary_for_month returns the salary of the staff member's
\* override with the greatest (year, month) <= the requested one, and that
\* row; with no such row, the base salary and no override.  With base 4000
\* and overrides (2024,3) 5000 and (2024,6) 6000: month 2 gives 4000,
\* month 4 gives 5000, month 7 gives 6000.
C5_EffectiveSalary ==
    result # <<>> =>
        /\ OwnOverrides = {} => result.returned = <<result.staff.salary, {}>>
        /\ \A r \in OwnOverrides :
              (\A o \in OwnOverrides : YearMonthLE(o.year, o.month, r.year, r.month))
              => result.returned = <<r.salary, {r}>>
        /\ ( /\ result.year = 2024
             /\ {<<r.year, r.month, r.salary>> :
                    r \in {o \in staff_monthly_salaries : o.staff_id = result.staff.id}}
                = {<<2024, 3, 5000>>, <<2024, 6, 6000>>} )
           => /\ result.month = 2 => result.returned[1] = 4000
              /\ result.month = 4 => result.returned[1] = 5000
              /\ result.month = 7 => result.returned[1] = 6000

\* the example's staff member asked for April 2024, while another staff
\* member has an override of March 2024
C5_Witness ==
    /\ result # <<>>
    /\ result.staff.id = 1 /\ result.year = 2024 /\ result.month = 4
    /\ {<<r.staff_id, r.year, r.month, r.salary>> : r \in staff_monthly_salaries}
          = {<<1, 2024, 3, 5000>>, <<1, 2024, 6, 6000>>, <<2, 2024, 3, 6000>>}
    /\ result.returned[1] = 5000
    /\ \E r \in result.returned[2] : r.staff_id = 1 /\ r.month = 3

\* sum(credit) - sum(debit) over the ledger
CurrentBankBalance == SumCredit(balance_entries) - SumDebit(balance_entries)

Unchanged(r) == r.db = DB

\* C8: a bank-sourced staff or supplier payment, and a bank withdrawal, of
\* more than the current bank balance is rejected and changes no table.
C8_InsufficientFundsRejected ==
    \A a \in PayAmounts, d \in Dates :
        a > CurrentBankBalance =>
            /\ Unchanged(pay_staff(DB, 1, "bank", a, d))
            /\ pay_staff(DB, 1, "bank", a, d).flash # "Salary payment recorded."
            /\ Unchanged(pay_supplier(DB, 1, "bank", a, d))
            /\ pay_supplier(DB, 1, "bank", a, d).flash # "Supplier payment recorded."
            /\ Unchanged(bank(DB, "withdraw", a, d))
            /\ bank(DB, "withdraw", a, d).flash # "Bank transaction recorded."

\* a supplier payment of 300 from a bank that holds 200 was turned down
C8_Witness ==
    /\ flash = "Not enough balance in bank to pay this amount."
    /\ result = [op |-> "pay_supplier", amount |-> 300]
    /\ CurrentBankBalance = 200

\* C9: recording or updating a staff or supplier payment with an amount <= 0
\* is rejected before any mutation: no row changes and no row is created.
C9_NonPositiveAmountRejected ==
    \A a \in PayAmounts, s \in Sources, d \in Dates, i \in Ids :
        a <= 0 =>
            /\ Unchanged(pay_staff(DB, 1, s, a, d))
            /\ pay_staff(DB, 1, s, a, d).flash = "Amount must be positive."
            /\ Unchanged(pay_supplier(DB, 1, s, a, d))
            /\ pay_supplier(DB, 1, s, a, d).flash = "Amount must be positive."
            /\ Unchanged(update_staff_payment(DB, i, a))
            /\ (\E p \in staff_payments : p.id = i)
                  => update_staff_payment(DB, i, a).flash = "Amount must be positive."
            /\ Unchanged(update_supplier_payment(DB, i, a))
            /\ (\E p \in supplier_payments : p.id = i)
                  => update_supplier_payment(DB, i, a).flash
                        = "Amount must be positive."

\* an update of a bank-sourced staff payment to 0 was turned down
C9_Witness ==
    /\ flash = "Amount must be positive."
    /\ result = [op |-> "update_staff_payment", amount |-> 0]
    /\ \E p \in staff_payments : p.source = "bank" /\ p.amount > 0

\* what the staff member was paid in the month of day d
PaidInMonthOf(d) ==
    SumAmount({p \in staff_payments :
                  p.staff_id = 1 /\ Year(p.date) = Year(d) /\ Month(p.date) = Month(d)})

SalaryInMonthOf(d) ==
    get_staff_salary_for_month(staff_monthly_salaries,
                               CHOOSE x \in staffs : x.id = 1,
                               Year(d), Month(d))[1]

TotalDue == (CHOOSE x \in suppliers : x.id = 1).total_due

SalaryOverpaid == "Cannot pay more than remaining salary for this month."

SupplierOverpaid == "Cannot pay more than remaining amount."

\* C10: recording a payment is rejected as an overpayment, creating no row,
\* exactly when the obligation (effective salary of the payment's month, or
\* the supplier's total_due) is non-zero, remaining = obligation - already
\* paid is >= 0, and amount > remaining; with salary 5000 and 4800 paid, 300
\* is rejected and 200 is accepted leaving remaining 0.
C10_OverpaymentRejectedExactlyWhen ==
    \A a \in PayAmounts, s \in Sources, d \in Dates :
        LET remaining == SalaryInMonthOf(d) - PaidInMonthOf(d)
            left == TotalDue - SumAmount(supplier_payments)
            staff_paid == pay_staff(DB, 1, s, a, d)
            supplier_paid == pay_supplier(DB, 1, s, a, d)
            two_hundred == pay_staff(DB, 1, "cash", 200, d)
        IN /\ staff_paid.flash = SalaryOverpaid
                <=> (SalaryInMonthOf(d) # 0 /\ remaining >= 0 /\ a > remaining)
           /\ staff_paid.flash = SalaryOverpaid => Unchanged(staff_paid)
           /\ supplier_paid.flash = SupplierOverpaid
                <=> (TotalDue # 0 /\ left >= 0 /\ a > left)
           /\ supplier_paid.flash = SupplierOverpaid => Unchanged(supplier_paid)
           /\ (SalaryInMonthOf(d) = 5000 /\ PaidInMonthOf(d) = 4800) =>
                 /\ pay_staff(DB, 1, s, 300, d).flash = SalaryOverpaid
                 /\ two_hundred.flash = "Salary payment recorded."
                 /\ 5000 - SumAmount({p \in two_hundred.db.staff_payments :
                                         Month(p.date) = Month(d)}) = 0

\* with 4800 of January's 5000 paid, a payment of 300 was turned down
C10_Witness ==
    /\ flash = SalaryOverpaid
    /\ result = [op |-> "pay_staff", amount |-> 300]
    /\ SalaryInMonthOf(20240131) = 5000
    /\ PaidInMonthOf(20240131) = 4800

\* the rows a payment's expense_id and bank_entry_id refer to, if they exist
ExpenseOf(p) == {e \in expenses : e.id = p.expense_id}

BankEntryOf(p) == {be \in balance_entries : be.id = p.bank_entry_id}

\* what deleting payment p must leave of the expenses and of the ledger
PaymentGone(p, r) ==
    /\ r.db.expenses = expenses \ ExpenseOf(p)
    /\ Uncached(r.db.balance_entries) = Uncached(balance_entries \ BankEntryOf(p))
    /\ BankEntryOf(p) = {} => r.db.balance_entries = balance_entries
    /\ BankEntryOf(p) # {} =>
          \A e \in r.db.balance_entries :
              e.balance_after = RunningTotal(r.db.balance_entries, e)

\* C6: deleting a staff or supplier payment removes the payment row, the
\* Expense its expense_id refers to if it exists and the BalanceEntry its
\* bank_entry_id refers to if it exists, and recalculates the balances when a
\* BalanceEntry was removed; it succeeds also when a linked row is absent.
C6_DeletePaymentRemovesLinkedRows ==
    /\ \A p \in staff_payments :
          LET r == delete_staff_payment(DB, p.id)
          IN /\ r.flash = "Salary payment deleted."
             /\ r.db.staff_payments = staff_payments \ {p}
             /\ r.db.supplier_payments = supplier_payments
             /\ PaymentGone(p, r)
    /\ \A p \in supplier_payments :
          LET r == delete_supplier_payment(DB, p.id)
          IN /\ r.flash = "Supplier payment deleted."
             /\ r.db.supplier_payments = supplier_payments \ {p}
             /\ r.db.staff_payments = staff_payments
             /\ PaymentGone(p, r)

\* a bank-sourced staff payment was deleted after its bank entry had been
\* deleted through the bank page; the deposit that funded it is still there
C6_Witness ==
    /\ backend = "postgresql"
    /\ flash = "Salary payment deleted."
    /\ result.op = "delete_staff_payment"
    /\ \E p \in result.row :
          /\ p.source = "bank"
          /\ delete_logs = <<<<"bank_entry", p.bank_entry_id>>,
                             <<"staff_payment", p.id>>>>
    /\ staff_payments = {} /\ expenses = {}
    /\ \E e \in balance_entries : e.credit > 0 /\ e.balance_after = e.credit

\* the payments of database db that refer to expense x
PaymentsOf(x, db) ==
    {p \in db.staff_payments \cup db.supplier_payments : p.expense_id = x.id}

\* after the deletion of expense x: the expense, the payments that referred
\* to it and the bank entries those payments referred to are gone
Cascaded(x, db) ==
    /\ x \notin db.expenses
    /\ PaymentsOf(x, db) = {}
    /\ \A p \in PaymentsOf(x, DB) :
          ~ \E be \in db.balance_entries : be.id = p.bank_entry_id

\* C7: every operation that deletes an Expense row directly (delete_expense,
\* and a row of the edit_expense save marked for deletion) also deletes the
\* payments whose expense_id refers to it and the BalanceEntry of each, so
\* that no payment references the deleted expense afterwards.
C7_DirectExpenseDeleteCascades ==
    \A x \in expenses :
        /\ Cascaded(x, delete_expense(DB, x.id).db)
        /\ Cascaded(x, edit_expense(DB, <<[expense_id |-> x.id,
                                           amount |-> x.amount,
                                           delete |-> TRUE]>>).db)

\* sum(credit) - sum(debit) over the ledger of database db
BalanceIn(db) == SumCredit(db.balance_entries) - SumDebit(db.balance_entries)

\* payment p of database db, its expense and its bank entry all carry amount b
AllCarry(p, db, b) ==
    /\ p.amount = b
    /\ \E e \in db.expenses : e.id = p.expense_id /\ e.amount = b
    /\ \E be \in db.balance_entries : be.id = p.bank_entry_id /\ be.debit = b
    /\ \A e \in db.expenses : e.id = p.expense_id => e.amount = b
    /\ \A be \in db.balance_entries : be.id = p.bank_entry_id => be.debit = b

\* C11: for a > 0 and b > 0 with a accepted as a bank-sourced payment, after
\* recording a and then updating that payment to b, the payment's amount,
\* its Expense's amount and its BalanceEntry's debit are b, and the bank
\* balance is its value before the payment minus exactly b.
C11_RecordThenUpdate ==
    \A a \in PayAmounts, b \in PayAmounts, d \in Dates :
        (a > 0 /\ b > 0) =>
            /\ LET recorded == pay_staff(DB, 1, "bank", a, d)
               IN recorded.flash = "Salary payment recorded." =>
                     \A new \in recorded.db.staff_payments \ staff_payments :
                         LET updated == update_staff_payment(recorded.db, new.id, b)
                         IN /\ updated.flash = "Salary payment updated."
                            /\ \E p \in updated.db.staff_payments : p.id = new.id
                            /\ \A p \in updated.db.staff_payments :
                                  p.id = new.id => AllCarry(p, updated.db, b)
                            /\ BalanceIn(updated.db) = BalanceIn(DB) - b
            /\ LET recorded == pay_supplier(DB, 1, "bank", a, d)
               IN recorded.flash = "Supplier payment recorded." =>
                     \A new \in recorded.db.supplier_payments \ supplier_payments :
                         LET updated == update_supplier_payment(recorded.db, new.id, b)
                         IN /\ updated.flash = "Supplier payment updated."
                            /\ \E p \in updated.db.supplier_payments : p.id = new.id
                            /\ \A p \in updated.db.supplier_payments :
                                  p.id = new.id => AllCarry(p, updated.db, b)
                            /\ BalanceIn(updated.db) = BalanceIn(DB) - b

\* a bank-sourced salary payment of 200, all the bank held, was updated to 300
C11_Witness ==
    /\ flash = "Salary payment updated."
    /\ result = [op |-> "update_staff_payment", amount |-> 300]
    /\ \E p \in staff_payments : p.source = "bank" /\ AllCarry(p, DB, 300)
    /\ supplier_payments = {}
    /\ SumCredit(balance_entries) = 200
    /\ BalanceIn(DB) = -100

\* what an accepted payment added to the tables of before, leaving after
Created(before, after, new, category, s, a, d) ==
    /\ \E e \in after.expenses \ before.expenses :
          /\ after.expenses = before.expenses \cup {e}
          /\ ~ \E o \in before.expenses : o.id = e.id
          /\ e.category = category /\ e.amount = a /\ e.date = d
          /\ new.expense_id = e.id
    /\ new.amount = a /\ new.source = s /\ new.date = d
    /\ s = "cash" =>
          /\ new.bank_entry_id = 0
          /\ after.balance_entries = before.balance_entries
    /\ s = "bank" =>
          \E be \in after.balance_entries :
              /\ ~ \E o \in before.balance_entries : o.id = be.id
              /\ be.credit = 0 /\ be.debit = a
              /\ new.bank_entry_id = be.id
              /\ Uncached(after.balance_entries \ {be})
                    = Uncached(before.balance_entries)

\* C12: an accepted record_payment creates exactly one Expense (category
\* Salary or Supplier, the payment's amount and date), exactly one payment
\* row whose expense_id is that Expense's id, and, if and only if the source
\* is bank, exactly one BalanceEntry with credit 0 and debit = amount whose
\* id is the payment's bank_entry_id; a cash payment stores no bank_entry_id
\* and leaves the BalanceEntry table unchanged.
C12_RecordCreatesLinkedRows ==
    \A a \in PayAmounts, s \in Sources, d \in Dates :
        /\ LET r == pay_staff(DB, 1, s, a, d)
           IN r.flash = "Salary payment recorded." =>
                 /\ r.db.supplier_payments = supplier_payments
                 /\ \E new \in r.db.staff_payments \ staff_payments :
                       /\ r.db.staff_payments = staff_payments \cup {new}
                       /\ ~ \E o \in staff_payments : o.id = new.id
                       /\ Created(DB, r.db, new, "Salary", s, a, d)
        /\ LET r == pay_supplier(DB, 1, s, a, d)
           IN r.flash = "Supplier payment recorded." =>
                 /\ r.db.staff_payments = staff_payments
                 /\ \E new \in r.db.supplier_payments \ supplier_payments :
                       /\ r.db.supplier_payments = supplier_payments \cup {new}
                       /\ ~ \E o \in supplier_payments : o.id = new.id
                       /\ Created(DB, r.db, new, "Supplier", s, a, d)

\* a supplier payment of 200 from the bank was recorded after a cash salary
\* payment: two expenses, one debit in the ledger
C12_Witness ==
    /\ flash = "Supplier payment recorded."
    /\ result = [op |-> "pay_supplier", amount |-> 200]
    /\ \E p \in supplier_payments, be \in balance_entries, e \in expenses :
          /\ p.source = "bank" /\ p.bank_entry_id = be.id /\ p.expense_id = e.id
          /\ be.credit = 0 /\ be.debit = 200
          /\ e.category = "Supplier" /\ e.amount = 200
    /\ \E q \in staff_payments : q.source = "cash" /\ q.bank_entry_id = 0
    /\ Cardinality(expenses) = 2
    /\ Cardinality({be \in balance_entries : be.debit > 0}) = 1

\* C13: in every state reachable by adding suppliers, adding bills and
\* deleting bills, each Supplier's total_due equals the sum of the amounts of
\* the SupplierBill rows that belong to it (0 when it has none).
C13_TotalDueIsSumOfBills ==
    \A s \in suppliers :
        s.total_due
            = SumPairs({<<b.id, b.amount>> :
                           b \in {x \in supplier_bills : x.supplier_id = s.id}})

\* a bill was deleted from a supplier that keeps two others, while a second
\* supplier has no bill
C13_Witness ==
    /\ flash = "Bill deleted."
    /\ \E s, t \in suppliers :
          /\ s.id # t.id
          /\ Cardinality({b \in supplier_bills : b.supplier_id = s.id}) = 2
          /\ s.total_due = 3
          /\ t.total_due = 0
    /\ \E k \in DOMAIN delete_logs : delete_logs[k][1] = "supplier_bill"

\* C14: the DeleteLog is append-only: no operation (empty_database
\* included) changes or removes a row once written, so over every step the
\* log before is a prefix of the log after.
C14_DeleteLogAppendOnly ==
    [][ /\ Len(delete_logs') >= Len(delete_logs)
        /\ \A k \in DOMAIN delete_logs : delete_logs'[k] = delete_logs[k] ]_vars

\* some row of table before has no row of the same id in table after
RowGone(before, after) == \E r \in before : ~ \E o \in after : o.id = r.id

\* the step deletes a record of one of the tables
RecordDeleted ==
    \/ RowGone(expenses, expenses')
    \/ RowGone(balance_entries, balance_entries')
    \/ RowGone(staff_payments, staff_payments')
    \/ RowGone(supplier_payments, supplier_payments')
    \/ RowGone(suppliers, suppliers')
    \/ RowGone(supplier_bills, supplier_bills')
    \/ RowGone(staff_monthly_salaries, staff_monthly_salaries')

\* C15: every operation that deletes a record (the reset of a salary
\* override among them) adds a DeleteLog row in the same commit: no step
\* removes a record without the committed log having grown by a row.
C15_EveryDeleteLogged ==
    [][ RecordDeleted =>
           /\ Len(delete_logs') > Len(delete_logs)
           /\ \A k \in DOMAIN delete_logs : delete_logs'[k] = delete_logs[k] ]_vars

\* row r is the override of staff i for month (y, m)
SameMonth(r, i, y, m) == r.staff_id = i /\ r.year = y /\ r.month = m

ValidMonths == {m \in FormMonths : m >= 1 /\ m <= 12}

\* effective_salary(i, y, m) over the override rows O
SalaryOf(O, i, y, m) ==
    get_staff_salary_for_month(O, CHOOSE x \in staffs : x.id = i, y, m)[1]

\* C19: over any sequence of set and reset operations there is at most one
\* StaffMonthlySalary row per (staff, year, month): setting a month that
\* already has an override updates that row in place instead of adding a
\* row, and the salary set last is what effective_salary returns for it.
C19_OneOverridePerMonth ==
    /\ \A r1, r2 \in staff_monthly_salaries :
          SameMonth(r1, r2.staff_id, r2.year, r2.month) => r1 = r2
    /\ \A i \in 1..MaxStaff, y \in OverrideYears, m \in ValidMonths,
          salary \in {x \in FormSalaries : x >= 0} :
          LET r == set_monthly_salary(DB, i, y, m, salary, "set")
              had == {x \in staff_monthly_salaries : SameMonth(x, i, y, m)}
              has == {x \in r.db.staff_monthly_salaries : SameMonth(x, i, y, m)}
          IN /\ Cardinality(has) = 1
             /\ \A x \in has : x.salary = salary
             /\ had # {} =>
                   /\ {x.id : x \in has} = {x.id : x \in had}
                   /\ r.db.staff_monthly_salaries \ has = staff_monthly_salaries \ had
             /\ SalaryOf(r.db.staff_monthly_salaries, i, y, m) = salary

\* an override of 5000 was set again to 6000: same row, new salary
C19_Witness ==
    /\ flash = "Salary set from this month onwards."
    /\ result.op = "set"
    /\ \E old \in result.row, new \in staff_monthly_salaries :
          /\ new.id = old.id /\ old.salary = 5000 /\ new.salary = 6000
          /\ SameMonth(new, old.staff_id, old.year, old.month)
          /\ SalaryOf(staff_monthly_salaries, new.staff_id, new.year, new.month) = 6000
    /\ Cardinality(staff_monthly_salaries) = 2

\* the overrides of staff i in O dated strictly before (y, m)
Older(O, i, y, m) ==
    {x \in O : x.staff_id = i /\ (x.year < y \/ (x.year = y /\ x.month < m))}

BilledLessPaid(i, Test(_)) ==
    SumPairs({<<b.id, b.amount>> :
                 b \in {x \in supplier_bills : x.supplier_id = i /\ Test(x.date)}})
    - SumPairs({<<q.id, q.amount>> :
                 q \in {x \in supplier_payments : x.supplier_id = i /\ Test(x.date)}})

\* C18: for a supplier and a range [start, end] with start <= end, the
\* report's opening balance is the supplier's bills minus payments dated
\* strictly before start, the closing balance is opening + bills in range -
\* payments in range, hence all bills minus all payments dated <= end; other
\* suppliers' rows do not contribute.  Prior balance 2000, period bills
\* 10000 and period payments 4000 give opening 2000 and closing 8000.
C18_SupplierReportBalances ==
    result # <<>> =>
        LET i == result.supplier_id
            start == result.start_date
            end == result.end_date
            Prior(d) == d < start
            Period(d) == start <= d /\ d <= end
            UpToEnd(d) == d <= end
        IN /\ start <= end
           /\ result.opening_balance = BilledLessPaid(i, Prior)
           /\ result.closing_balance
                 = result.opening_balance + BilledLessPaid(i, Period)
           /\ result.closing_balance = BilledLessPaid(i, UpToEnd)
           /\ ( /\ BilledLessPaid(i, Prior) = 2000
                /\ result.total_bills_period = 10000
                /\ result.total_paid_period = 4000 )
              => (result.opening_balance = 2000 /\ result.closing_balance = 8000)

\* the example: a bill of 2000 before the range, a bill of 10000 and a
\* payment of 4000 on its first day
C18_Witness ==
    /\ result # <<>>
    /\ result.start_date = 20240201 /\ result.end_date = 20240215
    /\ {<<b.supplier_id, b.date, b.amount>> : b \in supplier_bills}
          = {<<result.supplier_id, 20240115, 2000>>,
             <<result.supplier_id, 20240201, 10000>>}
    /\ {<<q.supplier_id, q.date, q.amount>> : q \in supplier_payments}
          = {<<result.supplier_id, 20240201, 4000>>}
    /\ result.opening_balance = 2000
    /\ result.closing_balance = 8000

\* some row's balance_after is not the running total up to it
Stale == \E e \in balance_entries : e.balance_after # RunningTotal(balance_entries, e)

\* C16: when persistence fails at any step of a bank-affecting operation,
\* the failure of the recalculation's commit included, the stored state is
\* the state before the operation and no balance_after disagrees with the
\* ledger.
C16_FailedOperationUndone ==
    result.pc = "failed" => (DB = result.before /\ ~Stale)

\* C17: once all requests have finished, a balance_after that differs from
\* the prefix sum of credit - debit in (date, id) order is found only when
\* requests overlapped; requests served one after the other never leave
\* one.  The stale state itself is reachable (C17_Witness).
C17_StaleOnlyByInterleaving ==
    ( /\ \A r \in Requests : result[r].pc \in AtRest
      /\ Stale )
    => \E r \in Requests : result[r].overlapped

\* both requests have finished, they overlapped, and a row is stale
C17_Witness ==
    /\ \A r \in Requests : result[r].pc = "done"
    /\ \E r \in Requests : result[r].overlapped
    /\ Stale

\* C21: in every state the cash in hand shown on the dashboard and on the
\* bank page is (day totals + lab collections - expenses - doctor bills)
\* - (bank credits - bank debits), and the two pages show the same value.
C21_CashInHand ==
    LET collected == SumPairs({<<r.id, r.total_collection>> : r \in days})
                     + SumPairs({<<r.id, r.amount>> : r \in lab_collections})
        spent == SumPairs({<<r.id, r.amount>> : r \in expenses})
                 + SumPairs({<<r.id, r.amount>> : r \in doctor_bills})
        in_bank == SumPairs({<<e.id, e.credit>> : e \in balance_entries})
                   - SumPairs({<<e.id, e.debit>> : e \in balance_entries})
    IN /\ dashboard(DB).cash_in_hand = (collected - spent) - in_bank
       /\ bank_page(DB).cash_in_hand = (collected - spent) - in_bank
       /\ dashboard(DB).cash_in_hand = bank_page(DB).cash_in_hand

\* every kind of row contributes and the cash in hand is not zero
C21_Witness ==
    /\ \E r \in days : r.total_collection > 0
    /\ lab_collections # {}
    /\ expenses # {}
    /\ doctor_bills # {}
    /\ \E e \in balance_entries : e.credit > 0
    /\ \E e \in balance_entries : e.debit > 0
    /\ bank_page(DB).cash_in_hand # 0

\* C22: after empty_database has completed successfully no financial record
\* remains: days, expenses, doctor bills, bank entries, staff, staff
\* payments, staff monthly salary overrides, suppliers, supplier bills,
\* supplier payments, expense templates and lab collections are all empty,
\* and the users are the users there were.
C22_EmptyDatabaseLeavesNothing ==
    flash = "All financial records have been permanently deleted."
    => /\ days = {} /\ expenses = {} /\ doctor_bills = {}
       /\ balance_entries = {} /\ staffs = {} /\ staff_payments = {}
       /\ staff_monthly_salaries = {}
       /\ suppliers = {} /\ supplier_bills = {} /\ supplier_payments = {}
       /\ expense_templates = {} /\ lab_collections = {}
       /\ users = EmptyDB(backend).users

AllPayments == staff_payments \cup supplier_payments

\* C23: when requests run one at a time, every BalanceEntry written by a
\* bank-sourced payment (in SpecOwn: every entry with a debit) is referenced
\* by the bank_entry_id of an existing payment; no sequence of payment,
\* expense and supplier deletions, expense edits and payment updates leaves
\* such a debit in the ledger after its payment is gone.
C23_PaymentDebitsAreOwned ==
    \A e \in balance_entries :
        e.debit > 0 => \E p \in AllPayments : p.bank_entry_id = e.id

\* a payment, expense or supplier has been deleted, and the ledger holds the
\* debit of a payment that is still there
C23_Witness ==
    /\ \E k \in DOMAIN delete_logs :
          delete_logs[k][1] \in {"staff_payment", "supplier_payment",
                                 "expense", "supplier"}
    /\ \E e \in balance_entries : e.debit > 0
    /\ \E p \in AllPayments : p.source = "bank"

\* C24: in every reachable state every payment's references are live: a
\* non-null expense_id is the id of an existing Expense and a non-null
\* bank_entry_id is the id of an existing BalanceEntry, also after
\* delete_bank_entry and the delete flag of edit_expense.
C24_PaymentReferencesLive ==
    \A p \in staff_payments \cup supplier_payments :
        /\ p.expense_id # 0 => \E x \in expenses : x.id = p.expense_id
        /\ p.bank_entry_id # 0 => \E e \in balance_entries : e.id = p.bank_entry_id

\* C25: in every reachable state each Expense is referenced by the
\* expense_id of at most one payment (staff and supplier counted together)
\* and each BalanceEntry by the bank_entry_id of at most one payment, also
\* after rows have been deleted and new rows created.
C25_AtMostOneOwner ==
    LET payments ==
            {<<"staff", p.id, p.expense_id, p.bank_entry_id>> : p \in staff_payments}
            \cup {<<"supplier", p.id, p.expense_id, p.bank_entry_id>> :
                     p \in supplier_payments}
    IN /\ \A x \in expenses :
             Cardinality({p \in payments : p[3] = x.id}) <= 1
       /\ \A e \in balance_entries :
             Cardinality({p \in payments : p[4] = e.id}) <= 1

\* C26: when requests run one at a time the bank balance, sum of credit
\* minus sum of debit over all BalanceEntry rows, is never negative in a
\* state reachable from an empty ledger.
C26_BankBalanceNeverNegative ==
    SumPairs({<<e.id, e.credit>> : e \in balance_entries})
        - SumPairs({<<e.id, e.debit>> : e \in balance_entries}) >= 0

\* C27: two concurrent withdrawals (or bank-sourced payments) that each read
\* the bank balance before either commits are not both accepted when the
\* sum of their amounts exceeds that balance, and the bank balance does not
\* go below zero under interleaving.
C27_NoJointOverdraft ==
    /\ \A r, q \in Requests :
          ( /\ r # q
            /\ result[r].accepted /\ result[q].accepted
            /\ result[r].current_balance = result[q].current_balance )
          => result[r].amount + result[q].amount <= result[r].current_balance
    /\ SumPairs({<<e.id, e.credit>> : e \in balance_entries})
          - SumPairs({<<e.id, e.debit>> : e \in balance_entries}) >= 0

\* C28: for every staff member and month whose effective salary is not
\* zero, the staff member's payments dated in that month sum to at most the
\* effective salary of that month, in every state reachable from a state
\* without payments by recording and updating payments, editing expense
\* amounts, and setting and resetting salary overrides.
C28_PaidWithinSalary ==
    \A d \in Dates :
        SalaryInMonthOf(d) # 0 => PaidInMonthOf(d) <= SalaryInMonthOf(d)

\* bank_balance and cash_in_hand of a database
BankIn(db) ==
    SumPairs({<<e.id, e.credit>> : e \in db.balance_entries})
    - SumPairs({<<e.id, e.debit>> : e \in db.balance_entries})

CashIn(db) ==
    SumPairs({<<r.id, r.total_collection>> : r \in db.days})
    + SumPairs({<<r.id, r.amount>> : r \in db.lab_collections})
    - SumPairs({<<r.id, r.amount>> : r \in db.expenses})
    - SumPairs({<<r.id, r.amount>> : r \in db.doctor_bills})
    - BankIn(db)

\* what an accepted payment of amount a from source s does to the figures
PaymentMoves(r, s, a) ==
    IF s = "bank"
    THEN CashIn(r.db) = CashIn(DB) /\ BankIn(r.db) = BankIn(DB) - a
    ELSE CashIn(r.db) = CashIn(DB) - a /\ BankIn(r.db) = BankIn(DB)

\* C29: bank operations move money and do not create it.  A deposit or
\* withdrawal of a changes bank_balance by +a or -a and cash_in_hand by the
\* opposite, so that their sum is unchanged; an accepted bank-sourced payment
\* of a leaves cash_in_hand unchanged and lowers bank_balance by a; an
\* accepted cash-sourced payment lowers cash_in_hand by a and leaves
\* bank_balance unchanged.
C29_MoneyOnlyMoved ==
    /\ \A t \in TxTypes, a \in Amounts, d \in BillDates :
          LET r == bank(DB, t, a, d)
              sign == IF t = "deposit" THEN 1 ELSE -1
          IN r.flash = "Bank transaction recorded." =>
                /\ BankIn(r.db) = BankIn(DB) + sign * a
                /\ CashIn(r.db) = CashIn(DB) - sign * a
                /\ CashIn(r.db) + BankIn(r.db) = CashIn(DB) + BankIn(DB)
    /\ \A s \in Sources, a \in Amounts, d \in BillDates :
          /\ LET r == pay_staff(DB, 1, s, a, d)
             IN r.flash = "Salary payment recorded." => PaymentMoves(r, s, a)
          /\ LET r == pay_supplier(DB, 1, s, a, d)
             IN r.flash = "Supplier payment recorded." => PaymentMoves(r, s, a)

\* a bank-sourced salary payment has just been recorded against a deposit
C29_Witness ==
    /\ flash = "Salary payment recorded."
    /\ \E p \in staff_payments :
          /\ p.source = "bank"
          /\ \E e \in balance_entries : e.id = p.bank_entry_id /\ e.debit = p.amount
    /\ \E e \in balance_entries : e.credit > 0
    /\ days # {}

\* the cached balance of the last of the rows S in (date, id) order, 0 for
\* no row
LastBalance(S) ==
    IF S = {} THEN 0
    ELSE (CHOOSE e \in S : \A x \in S : AtOrBefore(x, e)).balance_after

\* C30: whenever the cached balances are up to date, for any range
\* [start, end] the statement's closing balance equals the balance_after of
\* the last BalanceEntry in (date, id) order dated <= end, or 0 when there
\* is none, and its opening balance equals the balance_after of the last
\* entry dated < start.
C30_StatementMatchesCache ==
    ( /\ result # <<>>
      /\ \A e \in balance_entries :
            e.balance_after = RunningTotal(balance_entries, e) )
    => /\ result.closing_balance
             = LastBalance({e \in balance_entries : e.date <= result.end_date})
       /\ result.opening_balance
             = LastBalance({e \in balance_entries : e.date < result.start_date})

\* an up-to-date ledger with a row before, in and after the range of the
\* statement
C30_Witness ==
    /\ result # <<>>
    /\ \A e \in balance_entries :
          e.balance_after = RunningTotal(balance_entries, e)
    /\ \E e \in balance_entries : e.date < result.start_date
    /\ \E e \in balance_entries :
          e.date >= result.start_date /\ e.date <= result.end_date
    /\ \E e \in balance_entries : e.date > result.end_date
    /\ result.opening_balance # result.closing_balance
    /\ result.opening_balance # 0

====
